---- MODULE Spec2Model ----
\* A model of the greenlight movie store: the MovieModel repository
\* (Insert, Get, Update, Delete) over the movies table, and the request
\* handlers that drive it, run by concurrent callers.
EXTENDS Integers, Sequences, FiniteSets, TLC

\* ------------------------------------------------------------------ bounds
NumCallers == 2     \* concurrent callers (requests in flight)
MaxId == 2          \* rows the INSERT statement may create
MaxVersion == 3     \* highest version a row may reach
MaxPage == 3        \* highest page, and page size, a list call may ask for

Callers == 1..NumCallers
IdArgs == -1..MaxId             \* ids a caller may pass, some below 1
VersionArgs == 1..MaxVersion    \* versions a caller may present
PageArgs == 1..MaxPage          \* pages and page sizes a caller may ask for
MaxListRows == MaxId + 1        \* rows createMovieHandler may create

\* ------------------------------------------------------------ Go values
Nil == "nil"
None == <<>>                    \* a nil pointer or nil slice
Some(x) == <<x>>                \* a non-nil pointer or slice holding x
ErrNoRows == "sql.ErrNoRows"
ErrRecordNotFound == "ErrRecordNotFound"
ErrEditConflict == "ErrEditConflict"
ErrBackend == "context deadline exceeded"   \* any other backend error
ErrRefused == "connection refused"          \* another one
ErrScan == "sql: Scan error"                \* an error of rows.Scan
ErrRows == "unexpected EOF"                 \* an error of rows.Err
CurrentYear == 2026

\* What the backend does with one request: "ok" executes the statement and
\* delivers its result; "lost" executes the statement, but the 3-second
\* context expires before the result is read; "down" fails before the
\* statement executes.
Outcomes == {"ok", "lost", "down"}
ReadOutcomes == {"ok", "down"}

\* What may happen to a query of many rows besides: "scan" delivers the rows
\* and rows.Scan fails on the first of them; "iter" delivers the rows and
\* rows.Err reports an error once they are read.
ListOutcomes == {"ok", "down", "scan", "iter"}

\* The zero value of the Movie struct, and one with the four fields set.
ZeroMovie ==
    [ID |-> 0, CreatedAt |-> 0, Title |-> "", Year |-> 0, Runtime |-> 0,
     Genres |-> None, Version |-> 0]

FieldsA == [Title |-> "Alpha", Year |-> 2000, Runtime |-> 90,
            Genres |-> Some(<<"drama">>)]
FieldsB == [Title |-> "Beta", Year |-> 2001, Runtime |-> 102,
            Genres |-> Some(<<"comedy", "war">>)]
ItemFields == {FieldsA, FieldsB}
FieldsC == [Title |-> "Alpha Beta", Year |-> 1999, Runtime |-> 120,
            Genres |-> Some(<<"Drama", "war">>)]
FieldsOld == [Title |-> "Alpha", Year |-> 1800, Runtime |-> 90,
              Genres |-> Some(<<"drama">>)]

WithFields(m, f) ==
    [m EXCEPT !.Title = f.Title, !.Year = f.Year, !.Runtime = f.Runtime,
              !.Genres = f.Genres]

\* ---------------------------------------------------------------- state
VARIABLES
    movies,     \* the movies table: a function from the ids that have a row
    serial,     \* last value drawn from the bigserial sequence of movies.id
    pc,         \* pc[c]: "idle", or "update" inside updateMovieHandler
    held,       \* held[c]: the *Movie caller c's handler holds: None, Some(m)
    last,       \* what the operation that ran last was given and returned
    prev,       \* the table and the sequence as that operation found them
    written     \* written[id]: the fields last written to row id, and the
                \* number of statements that rewrote the row since its insert

vars == <<movies, serial, pc, held, last, prev, written>>

\* The record of an operation: the store method called last in it ("none"
\* when it called none), the id and version presented, the backend outcome,
\* the error and the struct the method returned, the backend requests it
\* issued, and the handler's response ("none" for a bare method call).
Returned(op, id, ver, o, r, status) ==
    [op |-> op, id |-> id, ver |-> ver,
     o |-> IF r.calls = 0 THEN "none" ELSE o,
     err |-> r.err, movie |-> r.movie, calls |-> r.calls, status |-> status]

Found == [movies |-> movies, serial |-> serial]

NoCall == [err |-> Nil, movie |-> None, calls |-> 0]

\* The record of a handler's operation: also the handler's name and the
\* *Movie it gave to ValidateMovie (None when it did not get that far).
Handled(record, handler, validated) ==
    record @@ [handler |-> handler, validated |-> validated]

\* ------------------------------------------------- the backend's statements
\* The movies table assigns id from a bigserial, version from its DEFAULT and
\* created_at from now(): instants are numbered by the inserts executed.
NextSerial(s) == s + 1
DefaultVersion == 1

\* (bug) the id is taken next to the highest id in the table, not from the
\* sequence.
InsertStmtNextToMaxId(tbl, ser, title, year, runtime, genres) ==
    LET top == IF DOMAIN tbl = {} THEN 0
               ELSE CHOOSE i \in DOMAIN tbl : \A j \in DOMAIN tbl : j <= i
        row == [id |-> top + 1, created_at |-> NextSerial(ser),
                title |-> title, year |-> year, runtime |-> runtime,
                genres |-> genres, version |-> DefaultVersion]
    IN  [movies |-> [i \in DOMAIN tbl \cup {row.id} |->
                        IF i = row.id THEN row ELSE tbl[i]],
         serial |-> row.id,
         rows |-> <<row>>]

\* INSERT INTO movies (title, year, runtime, genres) VALUES ($1, $2, $3, $4)
\* RETURNING id, created_at, version
InsertStmt(tbl, ser, title, year, runtime, genres) ==
    LET row == [id |-> NextSerial(ser), created_at |-> NextSerial(ser), title |-> title,
                year |-> year, runtime |-> runtime, genres |-> genres,
                version |-> DefaultVersion]
    IN  [movies |-> [i \in DOMAIN tbl \cup {row.id} |->
                        IF i = row.id THEN row ELSE tbl[i]],
         serial |-> row.id,
         rows |-> <<row>>]

\* SELECT id, created_at, title, year, runtime, genres, version
\* FROM movies WHERE id = $1
SelectStmt(tbl, id) ==
    IF id \in DOMAIN tbl THEN <<tbl[id]>> ELSE <<>>

\* (bug) WHERE id = $5: the version is not part of the predicate.
UpdateStmtMatchesIdOnly(tbl, title, year, runtime, genres, id, version) ==
    IF id \in DOMAIN tbl
    THEN LET row == [tbl[id] EXCEPT !.title = title, !.year = year,
                        !.runtime = runtime, !.genres = genres,
                        !.version = tbl[id].version + 1]
         IN  [movies |-> [tbl EXCEPT ![id] = row], rows |-> <<row>>]
    ELSE [movies |-> tbl, rows |-> <<>>]

\* (bug) WHERE id = $5 AND version >= $6.
UpdateStmtVersionAtLeast(tbl, title, year, runtime, genres, id, version) ==
    IF id \in DOMAIN tbl /\ tbl[id].version >= version
    THEN LET row == [tbl[id] EXCEPT !.title = title, !.year = year,
                        !.runtime = runtime, !.genres = genres,
                        !.version = tbl[id].version + 1]
         IN  [movies |-> [tbl EXCEPT ![id] = row], rows |-> <<row>>]
    ELSE [movies |-> tbl, rows |-> <<>>]

\* (bug) SET ..., created_at = now(): instant 0 stands for the time of the
\* update.
UpdateStmtSetsCreatedAt(tbl, title, year, runtime, genres, id, version) ==
    IF id \in DOMAIN tbl /\ tbl[id].version = version
    THEN LET row == [tbl[id] EXCEPT !.title = title, !.year = year,
                        !.runtime = runtime, !.genres = genres,
                        !.created_at = 0,
                        !.version = tbl[id].version + 1]
         IN  [movies |-> [tbl EXCEPT ![id] = row], rows |-> <<row>>]
    ELSE [movies |-> tbl, rows |-> <<>>]

\* UPDATE movies SET title = $1, year = $2, runtime = $3, genres = $4,
\* version = version + 1 WHERE id = $5 AND version = $6 RETURNING version
\* (bug) SET title = $1, year = $2, runtime = $3, genres = $4: the version
\* stays.
UpdateStmtKeepsVersion(tbl, title, year, runtime, genres, id, version) ==
    IF id \in DOMAIN tbl /\ tbl[id].version = version
    THEN LET row == [tbl[id] EXCEPT !.title = title, !.year = year,
                        !.runtime = runtime, !.genres = genres]
         IN  [movies |-> [tbl EXCEPT ![id] = row], rows |-> <<row>>]
    ELSE [movies |-> tbl, rows |-> <<>>]

\* (bug) INSERT ... ON CONFLICT (id) DO UPDATE: an id without a row gets one.
UpdateStmtUpserts(tbl, title, year, runtime, genres, id, version) ==
    IF id \in DOMAIN tbl /\ tbl[id].version = version
    THEN LET row == [tbl[id] EXCEPT !.title = title, !.year = year,
                        !.runtime = runtime, !.genres = genres,
                        !.version = tbl[id].version + 1]
         IN  [movies |-> [tbl EXCEPT ![id] = row], rows |-> <<row>>]
    ELSE IF id \notin DOMAIN tbl /\ id >= 1
    THEN LET row == [id |-> id, title |-> title, year |-> year,
                     runtime |-> runtime, genres |-> genres,
                     created_at |-> 0, version |-> version + 1]
         IN  [movies |-> [i \in DOMAIN tbl \cup {id} |->
                            IF i = id THEN row ELSE tbl[i]],
              rows |-> <<row>>]
    ELSE [movies |-> tbl, rows |-> <<>>]

UpdateStmt(tbl, title, year, runtime, genres, id, version) ==
    IF id \in DOMAIN tbl /\ tbl[id].version = version
    THEN LET row == [tbl[id] EXCEPT !.title = title, !.year = year,
                        !.runtime = runtime, !.genres = genres,
                        !.version = tbl[id].version + 1]
         IN  [movies |-> [tbl EXCEPT ![id] = row], rows |-> <<row>>]
    ELSE [movies |-> tbl, rows |-> <<>>]

\* (bug) DELETE FROM movies: no WHERE clause.
DeleteStmtAllRows(tbl, id) ==
    IF id \in DOMAIN tbl
    THEN [movies |-> [i \in {} |-> tbl[id]], rowsAffected |-> 1]
    ELSE [movies |-> tbl, rowsAffected |-> 0]

\* DELETE FROM movies WHERE id = $1
DeleteStmt(tbl, id) ==
    IF id \in DOMAIN tbl
    THEN [movies |-> [i \in DOMAIN tbl \ {id} |-> tbl[i]], rowsAffected |-> 1]
    ELSE [movies |-> tbl, rowsAffected |-> 0]

\* ------------------------------------------------ database/sql and lib/pq
\* The error the driver reports for a request the backend did not answer.
BackendErr(o) == IF o = "down" THEN ErrRefused ELSE ErrBackend

\* The error of QueryRowContext(...).Scan(...) for the rows a statement
\* returned under backend outcome o.
ScanErr(rows, o) ==
    IF o # "ok" THEN BackendErr(o)
    ELSE IF rows = <<>> THEN ErrNoRows
    ELSE Nil

\* Whether the backend executed the statement at all.
Executed(o) == o \in {"ok", "lost"}

\* The Movie struct scanned from a row of the table.
ScanMovie(row) ==
    [ID |-> row.id, CreatedAt |-> row.created_at, Title |-> row.title,
     Year |-> row.year, Runtime |-> row.runtime, Genres |-> Some(row.genres),
     Version |-> row.version]

\* ------------------------------------------------------------- MovieModel
\* Each method is given the table (and the sequence) it runs against and
\* the backend outcome o, and yields the table afterwards, the caller's
\* struct afterwards, the error returned and the backend requests issued.

\* (bug) Scan is not given &movie.Version.
InsertKeepsCallerVersion(tbl, ser, m, o) ==
    LET q == InsertStmt(tbl, ser, m.Title, m.Year, m.Runtime, m.Genres[1])
        err == ScanErr(IF Executed(o) THEN q.rows ELSE <<>>, o)
    IN  [movies |-> IF Executed(o) THEN q.movies ELSE tbl,
         serial |-> IF Executed(o) THEN q.serial ELSE ser,
         movie |-> IF err = Nil
                   THEN [m EXCEPT !.ID = q.rows[1].id,
                                  !.CreatedAt = q.rows[1].created_at]
                   ELSE m,
         err |-> err,
         calls |-> 1]

Insert(tbl, ser, m, o) ==
    LET q == InsertStmt(tbl, ser, m.Title, m.Year, m.Runtime, m.Genres[1])
        err == ScanErr(IF Executed(o) THEN q.rows ELSE <<>>, o)
    IN  [movies |-> IF Executed(o) THEN q.movies ELSE tbl,
         serial |-> IF Executed(o) THEN q.serial ELSE ser,
         movie |-> IF err = Nil
                   THEN [m EXCEPT !.ID = q.rows[1].id,
                                  !.CreatedAt = q.rows[1].created_at,
                                  !.Version = q.rows[1].version]
                   ELSE m,
         err |-> err,
         calls |-> 1]

\* (bug) no shortcut for id < 1.
GetWithoutShortcut(tbl, id, o) ==
    LET rows == SelectStmt(tbl, id)
        err == ScanErr(rows, o)
    IN  IF err # Nil
        THEN [movie |-> None,
              err |-> IF err = ErrNoRows THEN ErrRecordNotFound ELSE err,
              calls |-> 1]
        ELSE [movie |-> Some(ScanMovie(rows[1])), err |-> Nil, calls |-> 1]

\* (bug) Scan is given &movie.Runtime and &movie.Year in the wrong order.
GetSwapsYearRuntime(tbl, id, o) ==
    IF id < 1
    THEN [movie |-> None, err |-> ErrRecordNotFound, calls |-> 0]
    ELSE LET rows == SelectStmt(tbl, id)
             err == ScanErr(rows, o)
         IN  IF err # Nil
             THEN [movie |-> None,
                   err |-> IF err = ErrNoRows THEN ErrRecordNotFound ELSE err,
                   calls |-> 1]
             ELSE [movie |-> Some([ScanMovie(rows[1]) EXCEPT
                                      !.Year = rows[1].runtime,
                                      !.Runtime = rows[1].year]),
                   err |-> Nil, calls |-> 1]

\* (bug) every error of Scan is reported as ErrRecordNotFound.
GetReturnsNotFoundForAnyError(tbl, id, o) ==
    IF id < 1
    THEN [movie |-> None, err |-> ErrRecordNotFound, calls |-> 0]
    ELSE LET rows == SelectStmt(tbl, id)
             err == ScanErr(rows, o)
         IN  IF err # Nil
             THEN [movie |-> None, err |-> ErrRecordNotFound, calls |-> 1]
             ELSE [movie |-> Some(ScanMovie(rows[1])), err |-> Nil,
                   calls |-> 1]

Get(tbl, id, o) ==
    IF id < 1
    THEN [movie |-> None, err |-> ErrRecordNotFound, calls |-> 0]
    ELSE LET rows == SelectStmt(tbl, id)
             err == ScanErr(rows, o)
         IN  IF err # Nil
             THEN [movie |-> None,
                   err |-> IF err = ErrNoRows THEN ErrRecordNotFound ELSE err,
                   calls |-> 1]
             ELSE [movie |-> Some(ScanMovie(rows[1])), err |-> Nil,
                   calls |-> 1]

\* (bug) the new version is not scanned into the caller's struct.
UpdateKeepsCallerVersion(tbl, m, o) ==
    LET q == UpdateStmt(tbl, m.Title, m.Year, m.Runtime, m.Genres[1], m.ID,
                        m.Version)
        err == ScanErr(q.rows, o)
    IN  [movies |-> IF Executed(o) THEN q.movies ELSE tbl,
         movie |-> m,
         err |-> IF err = ErrNoRows THEN ErrEditConflict ELSE err,
         calls |-> 1]

\* (bug) sql.ErrNoRows is mapped as Get maps it.
UpdateReturnsNotFound(tbl, m, o) ==
    LET q == UpdateStmt(tbl, m.Title, m.Year, m.Runtime, m.Genres[1], m.ID,
                        m.Version)
        err == ScanErr(q.rows, o)
    IN  [movies |-> IF Executed(o) THEN q.movies ELSE tbl,
         movie |-> IF err = Nil
                   THEN [m EXCEPT !.Version = q.rows[1].version]
                   ELSE m,
         err |-> IF err = ErrNoRows THEN ErrRecordNotFound ELSE err,
         calls |-> 1]

\* (bug) the fields and the version are set by two statements, and the
\* context may expire between them.
UpdateInTwoStatements(tbl, m, o) ==
    LET q == UpdateStmt(tbl, m.Title, m.Year, m.Runtime, m.Genres[1], m.ID,
                        m.Version)
        err == ScanErr(q.rows, o)
        half == IF q.rows = <<>> THEN tbl
                ELSE [tbl EXCEPT ![m.ID] =
                         [q.rows[1] EXCEPT !.version = tbl[m.ID].version]]
    IN  [movies |-> IF o = "ok" THEN q.movies
                    ELSE IF Executed(o) THEN half ELSE tbl,
         movie |-> IF err = Nil
                   THEN [m EXCEPT !.Version = q.rows[1].version]
                   ELSE m,
         err |-> IF err = ErrNoRows THEN ErrEditConflict ELSE err,
         calls |-> 2]

\* (bug) the row is read and then written, in two round trips.
UpdateInTwoRoundTrips(tbl, m, o) ==
    LET q == UpdateStmt(tbl, m.Title, m.Year, m.Runtime, m.Genres[1], m.ID,
                        m.Version)
        err == ScanErr(q.rows, o)
    IN  [movies |-> IF Executed(o) THEN q.movies ELSE tbl,
         movie |-> IF err = Nil
                   THEN [m EXCEPT !.Version = q.rows[1].version]
                   ELSE m,
         err |-> IF err = ErrNoRows THEN ErrEditConflict ELSE err,
         calls |-> 2]

\* (bug) Update returns ErrRecordNotFound for an id below 1, as Get and
\* Delete do, without a request to the backend.
UpdateWithShortcut(tbl, m, o) ==
    LET q == UpdateStmt(tbl, m.Title, m.Year, m.Runtime, m.Genres[1], m.ID,
                        m.Version)
        err == ScanErr(q.rows, o)
    IN  IF m.ID < 1
        THEN [movies |-> tbl, movie |-> m, err |-> ErrRecordNotFound,
              calls |-> 0]
        ELSE [movies |-> IF Executed(o) THEN q.movies ELSE tbl,
              movie |-> IF err = Nil
                        THEN [m EXCEPT !.Version = q.rows[1].version]
                        ELSE m,
              err |-> IF err = ErrNoRows THEN ErrEditConflict ELSE err,
              calls |-> 1]

Update(tbl, m, o) ==
    LET q == UpdateStmt(tbl, m.Title, m.Year, m.Runtime, m.Genres[1], m.ID,
                        m.Version)
        err == ScanErr(q.rows, o)
    IN  [movies |-> IF Executed(o) THEN q.movies ELSE tbl,
         movie |-> IF err = Nil
                   THEN [m EXCEPT !.Version = q.rows[1].version]
                   ELSE m,
         err |-> IF err = ErrNoRows THEN ErrEditConflict ELSE err,
         calls |-> 1]

\* (bug) the rows affected are not inspected.
DeleteIgnoresRowsAffected(tbl, id, o) ==
    IF id < 1
    THEN [movies |-> tbl, movie |-> None, err |-> ErrRecordNotFound,
          calls |-> 0]
    ELSE LET q == DeleteStmt(tbl, id)
         IN  [movies |-> IF Executed(o) THEN q.movies ELSE tbl,
              movie |-> None,
              err |-> IF o # "ok" THEN BackendErr(o) ELSE Nil,
              calls |-> 1]

Delete(tbl, id, o) ==
    IF id < 1
    THEN [movies |-> tbl, movie |-> None, err |-> ErrRecordNotFound,
          calls |-> 0]
    ELSE LET q == DeleteStmt(tbl, id)
         IN  [movies |-> IF Executed(o) THEN q.movies ELSE tbl,
              movie |-> None,
              err |-> IF o # "ok" THEN BackendErr(o)
                      ELSE IF q.rowsAffected = 0 THEN ErrRecordNotFound
                      ELSE Nil,
              calls |-> 1]

\* -------------------------------------------------------------- validator
\* The errors map of a Validator: a function from the keys that failed to
\* the first message recorded for each.
NoErrors == [k \in {} |-> ""]

AddError(errors, key, message) ==
    IF key \in DOMAIN errors THEN errors
    ELSE [k \in DOMAIN errors \cup {key} |->
            IF k = key THEN message ELSE errors[k]]

Check(errors, ok, key, message) ==
    IF ok THEN errors ELSE AddError(errors, key, message)

Valid(errors) == DOMAIN errors = {}

Unique(values) ==
    \A i, j \in 1..Len(values) : values[i] = values[j] => i = j

\* len() of a slice that may be nil.
GoLen(slice) == IF slice = None THEN 0 ELSE Len(slice[1])

\* (bug) the checks stop at the first one that fails.
ValidateMovieStopsAtFirst(m) ==
    IF m.Title = "" THEN AddError(NoErrors, "title", "must be provided")
    ELSE IF Len(m.Title) > 500
    THEN AddError(NoErrors, "title", "must not be more than 500 bytes long")
    ELSE IF m.Year = 0 THEN AddError(NoErrors, "year", "must be provided")
    ELSE IF m.Year < 1888
    THEN AddError(NoErrors, "year", "must be greater than 1888")
    ELSE IF m.Year > CurrentYear
    THEN AddError(NoErrors, "year", "must not be in the future")
    ELSE IF m.Runtime = 0 THEN AddError(NoErrors, "runtime", "must be provided")
    ELSE IF m.Runtime < 0
    THEN AddError(NoErrors, "runtime", "must be a positive integer")
    ELSE IF m.Genres = None THEN AddError(NoErrors, "genres", "must be provided")
    ELSE IF GoLen(m.Genres) < 1
    THEN AddError(NoErrors, "genres", "must contain at least 1 genre")
    ELSE IF GoLen(m.Genres) > 5
    THEN AddError(NoErrors, "genres", "must not contain more than 5 genres")
    ELSE IF ~Unique(m.Genres[1])
    THEN AddError(NoErrors, "genres", "must not contain duplicate values")
    ELSE NoErrors

ValidateMovie(m) ==
    LET e1 == Check(NoErrors, m.Title # "", "title", "must be provided")
        e2 == Check(e1, Len(m.Title) <= 500, "title",
                    "must not be more than 500 bytes long")
        e3 == Check(e2, m.Year # 0, "year", "must be provided")
        e4 == Check(e3, m.Year >= 1888, "year", "must be greater than 1888")
        e5 == Check(e4, m.Year <= CurrentYear, "year",
                    "must not be in the future")
        e6 == Check(e5, m.Runtime # 0, "runtime", "must be provided")
        e7 == Check(e6, m.Runtime > 0, "runtime", "must be a positive integer")
        e8 == Check(e7, m.Genres # None, "genres", "must be provided")
        e9 == Check(e8, GoLen(m.Genres) >= 1, "genres",
                    "must contain at least 1 genre")
        e10 == Check(e9, GoLen(m.Genres) <= 5, "genres",
                     "must not contain more than 5 genres")
    IN  Check(e10, m.Genres = None \/ Unique(m.Genres[1]), "genres",
              "must not contain duplicate values")

\* ---------------------------------------------------------------- Filters
\* The Filters struct is [Page, PageSize, Sort, SortSafelist]; the safelist
\* is the one listMoviesHandler sets.
SortSafelist ==
    <<"id", "title", "year", "runtime", "-id", "-title", "-year", "-runtime">>

Range(seq) == {seq[i] : i \in 1..Len(seq)}

\* The strings a sort key is compared with when its prefix is examined.
SortKeys == Range(SortSafelist) \cup {"genres", "-version", "version"}

\* strings.HasPrefix(s, "-") and strings.TrimPrefix(s, "-").
HasMinusPrefix(s) == \E t \in SortKeys : s = "-" \o t
TrimMinusPrefix(s) ==
    IF HasMinusPrefix(s) THEN CHOOSE t \in SortKeys : s = "-" \o t ELSE s

\* Whether the sort key is one of the safelist: sortColumn yields a column
\* for these only, and aborts the call (a panic) for any other.
SortIsSafe(f) == f.Sort \in Range(f.SortSafelist)

\* (bug) the sort key is not looked up in the safelist.
sortColumnUnchecked(f) == Some(TrimMinusPrefix(f.Sort))

\* None stands for the abort of the call.
sortColumn(f) ==
    IF SortIsSafe(f) THEN Some(TrimMinusPrefix(f.Sort)) ELSE None

sortDirection(f) == IF HasMinusPrefix(f.Sort) THEN "DESC" ELSE "ASC"

limit(f) == f.PageSize

offset(f) == (f.Page - 1) * f.PageSize

MaxPageAllowed == 10000000
MaxPageSizeAllowed == 100

PermittedValue(value, permitted) == value \in Range(permitted)

\* (bug) a page size of zero is let through.
ValidateFiltersFromZero(f) ==
    LET e1 == Check(NoErrors, f.Page > 0, "page", "must be greater than zero")
        e2 == Check(e1, f.Page <= MaxPageAllowed, "page",
                    "must be a maximum of 10 million")
        e3 == Check(e2, f.PageSize >= 0, "page_size",
                    "must be greater than zero")
        e4 == Check(e3, f.PageSize <= MaxPageSizeAllowed, "page_size",
                    "must be a maximum of 100")
    IN  Check(e4, PermittedValue(f.Sort, f.SortSafelist), "sort",
              "invalid sort value")

ValidateFilters(f) ==
    LET e1 == Check(NoErrors, f.Page > 0, "page", "must be greater than zero")
        e2 == Check(e1, f.Page <= MaxPageAllowed, "page",
                    "must be a maximum of 10 million")
        e3 == Check(e2, f.PageSize > 0, "page_size",
                    "must be greater than zero")
        e4 == Check(e3, f.PageSize <= MaxPageSizeAllowed, "page_size",
                    "must be a maximum of 100")
    IN  Check(e4, PermittedValue(f.Sort, f.SortSafelist), "sort",
              "invalid sort value")

\* --------------------------------------------------------------- Metadata
ZeroMetadata ==
    [CurrentPage |-> 0, PageSize |-> 0, FirstPage |-> 0, LastPage |-> 0,
     TotalRecords |-> 0]

\* math.Ceil(float64(a) / float64(b)) for positive ints.
CeilDiv(a, b) == (a + b - 1) \div b

\* (bug) the quotient is truncated, not rounded up.
calculateMetadataTruncates(totalRecords, page, pageSize) ==
    IF totalRecords = 0 THEN ZeroMetadata
    ELSE [CurrentPage |-> page, PageSize |-> pageSize, FirstPage |-> 1,
          LastPage |-> totalRecords \div pageSize,
          TotalRecords |-> totalRecords]

\* (bug) no case for zero records: the requested page and size are kept.
calculateMetadataKeepsPage(totalRecords, page, pageSize) ==
    [CurrentPage |-> page, PageSize |-> pageSize,
     FirstPage |-> IF totalRecords = 0 THEN 0 ELSE 1,
     LastPage |-> CeilDiv(totalRecords, pageSize),
     TotalRecords |-> totalRecords]

calculateMetadata(totalRecords, page, pageSize) ==
    IF totalRecords = 0 THEN ZeroMetadata
    ELSE [CurrentPage |-> page, PageSize |-> pageSize, FirstPage |-> 1,
          LastPage |-> CeilDiv(totalRecords, pageSize),
          TotalRecords |-> totalRecords]

\* ------------------------------------------------------ MovieModel.GetAll
\* to_tsvector('simple', s) and plainto_tsquery('simple', s): the lexemes of
\* the titles and search texts in use, lower-cased.
Lexemes(s) ==
    CASE s = "" -> {}
      [] s = "Alpha" -> {"alpha"}
      [] s = "Beta" -> {"beta"}
      [] s = "Alpha Beta" -> {"alpha", "beta"}
      [] s = "beta ALPHA" -> {"alpha", "beta"}
      [] OTHER -> {s}

\* tsvector @@ tsquery: every lexeme of the query is one of the document's.
TextMatches(title, text) ==
    Lexemes(text) # {} /\ Lexemes(text) \subseteq Lexemes(title)

\* genres @> $2: every element of the filter equals an element of the row's.
ArrayContains(genres, filter) == Range(filter) \subseteq Range(genres)

\* genres && $2: some element of the filter equals an element of the row's.
ArrayOverlaps(genres, filter) == Range(filter) \cap Range(genres) # {}

\* The order of the titles in use under the column's collation.
Collation == <<"Alpha", "Alpha Beta", "Beta">>
Collate(t) == CHOOSE i \in 1..Len(Collation) : Collation[i] = t

\* The value a row is ordered by, as a number.
SortValue(row, column) ==
    CASE column = "id" -> row.id
      [] column = "title" -> Collate(row.title)
      [] column = "year" -> row.year
      [] column = "runtime" -> row.runtime

\* (bug) ORDER BY %s %s, id %s: the tie-break follows the direction.
ComesBeforeIdFollows(a, b, column, direction) ==
    LET x == SortValue(a, column)
        y == SortValue(b, column)
    IN  IF x # y
        THEN IF direction = "ASC" THEN x < y ELSE x > y
        ELSE IF direction = "ASC" THEN a.id < b.id ELSE a.id > b.id

\* ORDER BY column direction, id ASC: row a comes before row b.
ComesBefore(a, b, column, direction) ==
    LET x == SortValue(a, column)
        y == SortValue(b, column)
    IN  IF x # y
        THEN IF direction = "ASC" THEN x < y ELSE x > y
        ELSE a.id < b.id

\* The ids in the order of their rows.
RECURSIVE OrderBy(_, _, _, _)
OrderBy(tbl, ids, column, direction) ==
    IF ids = {} THEN <<>>
    ELSE LET first == CHOOSE i \in ids : \A j \in ids \ {i} :
                         ComesBefore(tbl[i], tbl[j], column, direction)
         IN  <<first>> \o OrderBy(tbl, ids \ {first}, column, direction)

\* LIMIT lim OFFSET off of a sequence.
LimitOffset(seq, lim, off) ==
    SubSeq(seq, off + 1, IF off + lim < Len(seq) THEN off + lim ELSE Len(seq))

\* The rows of the statement for the ids that match, in order: each with the
\* window count over all that match.
Window(tbl, matching, column, direction, lim, off) ==
    LET page == LimitOffset(OrderBy(tbl, matching, column, direction),
                            lim, off)
    IN  [i \in 1..Len(page) |->
            [count |-> Cardinality(matching), row |-> tbl[page[i]]]]

\* (bug) genres && $2 in place of genres @> $2.
GetAllStmtOverlap(tbl, title, genres, column, direction, lim, off) ==
    Window(tbl,
           {i \in DOMAIN tbl :
               /\ TextMatches(tbl[i].title, title) \/ title = ""
               /\ ArrayOverlaps(tbl[i].genres, genres) \/ genres = <<>>},
           column, direction, lim, off)

\* SELECT count(*) OVER(), id, created_at, title, year, runtime, genres,
\* version FROM movies
\* WHERE (to_tsvector('simple', title) @@ plainto_tsquery('simple', $1)
\*        OR $1 = '') AND (genres @> $2 OR $2 = '{}')
\* ORDER BY %s %s, id ASC LIMIT $3 OFFSET $4
GetAllStmt(tbl, title, genres, column, direction, lim, off) ==
    Window(tbl,
           {i \in DOMAIN tbl :
               /\ TextMatches(tbl[i].title, title) \/ title = ""
               /\ ArrayContains(tbl[i].genres, genres) \/ genres = <<>>},
           column, direction, lim, off)

\* What GetAll returns once the statement's rows are in: the loop over the
\* rows, the slice it fills (first) and the count it scans from each row.
GetAllResult(rows, first, f, column, direction) ==
    LET totalRecords == IF rows = <<>> THEN 0 ELSE rows[Len(rows)].count
    IN  [movies |-> IF rows = <<>> THEN first
                    ELSE Some([i \in 1..Len(rows) |-> ScanMovie(rows[i].row)]),
         metadata |-> calculateMetadata(totalRecords, f.Page, f.PageSize),
         total |-> totalRecords,
         err |-> Nil, calls |-> 1, panics |-> FALSE,
         column |-> column, direction |-> direction]

\* (bug) return movies, Metadata{}, err: the slice filled so far is
\* returned with the error.
GetAllFailedKeepsRows(err, filled, column, direction) ==
    [movies |-> filled, metadata |-> ZeroMetadata, total |-> 0,
     err |-> err, calls |-> 1, panics |-> FALSE,
     column |-> column, direction |-> direction]

\* What GetAll returns for an error of QueryContext, Scan or rows.Err, the
\* slice being filled so far: return nil, Metadata{}, err.
GetAllFailed(err, filled, column, direction) ==
    [movies |-> None, metadata |-> ZeroMetadata, total |-> 0,
     err |-> err, calls |-> 1, panics |-> FALSE,
     column |-> column, direction |-> direction]

\* The call does not return: sortColumn aborted it before the query was
\* built.
GetAllAborted ==
    [movies |-> None, metadata |-> ZeroMetadata, total |-> 0,
     err |-> Nil, calls |-> 0, panics |-> TRUE,
     column |-> None, direction |-> None]

\* GetAll from the rows of the statement on: the loop over the rows, the
\* check of rows.Err and the metadata, under outcome o.
GetAllRows(rows, first, f, column, direction, o) ==
    IF o = "scan" /\ rows # <<>>
    THEN GetAllFailed(ErrScan, first, column, direction)
    ELSE IF o = "iter"
    THEN GetAllFailed(ErrRows,
                      GetAllResult(rows, first, f, column, direction).movies,
                      column, direction)
    ELSE GetAllResult(rows, first, f, column, direction)

\* The query was answered with rows.
Delivered(o) == o \in {"ok", "scan", "iter"}

\* (bug) args := []any{title, pq.Array(genres), filters.offset(),
\* filters.limit()}.
GetAllSwapsLimitOffset(tbl, title, genres, f, o) ==
    IF sortColumn(f) = None THEN GetAllAborted
    ELSE IF ~Delivered(o)
    THEN GetAllFailed(BackendErr(o), None, sortColumn(f),
                      Some(sortDirection(f)))
    ELSE GetAllRows(GetAllStmt(tbl, title, genres, sortColumn(f)[1],
                               sortDirection(f), offset(f), limit(f)),
                    Some(<<>>), f, sortColumn(f), Some(sortDirection(f)), o)

\* (bug) var movies []*Movie: the slice is nil until a row is appended.
GetAllNilSlice(tbl, title, genres, f, o) ==
    IF sortColumn(f) = None THEN GetAllAborted
    ELSE IF ~Delivered(o)
    THEN GetAllFailed(BackendErr(o), None, sortColumn(f),
                      Some(sortDirection(f)))
    ELSE GetAllRows(GetAllStmt(tbl, title, genres, sortColumn(f)[1],
                               sortDirection(f), limit(f), offset(f)),
                    None, f, sortColumn(f), Some(sortDirection(f)), o)

GetAll(tbl, title, genres, f, o) ==
    IF sortColumn(f) = None THEN GetAllAborted
    ELSE IF ~Delivered(o)
    THEN GetAllFailed(BackendErr(o), None, sortColumn(f),
                      Some(sortDirection(f)))
    ELSE GetAllRows(GetAllStmt(tbl, title, genres, sortColumn(f)[1],
                               sortDirection(f), limit(f), offset(f)),
                    Some(<<>>), f, sortColumn(f), Some(sortDirection(f)), o)

\* ------------------------------------------------------------------- Init
Init ==
    /\ movies = [i \in {} |-> ZeroMovie]
    /\ serial = 0
    /\ pc = [c \in Callers |-> "idle"]
    /\ held = [c \in Callers |-> None]
    /\ last = Returned("none", 0, 0, "none", NoCall, "none")
    /\ prev = [movies |-> [i \in {} |-> ZeroMovie], serial |-> 0]
    /\ written = [i \in {} |-> ZeroMovie]

\* No row of the table is beyond the bounds of the model.
InBounds(tbl, ser) ==
    /\ ser <= MaxId
    /\ \A i \in DOMAIN tbl : tbl[i].version <= MaxVersion

\* For each row of the table tbl that an operation given the struct m
\* leaves: the fields the operation that created or rewrote it was given,
\* and the count of the statements that rewrote it.
WrittenAfter(tbl, m) ==
    [i \in DOMAIN tbl |->
        IF i \notin DOMAIN movies
        THEN [Title |-> m.Title, Year |-> m.Year, Runtime |-> m.Runtime,
              Genres |-> m.Genres, updates |-> 0]
        ELSE IF tbl[i] # movies[i]
        THEN [Title |-> m.Title, Year |-> m.Year, Runtime |-> m.Runtime,
              Genres |-> m.Genres, updates |-> written[i].updates + 1]
        ELSE written[i]]

\* Some caller is outside every handler, free to call the store.
SomeCallerIdle == \E c \in Callers : pc[c] = "idle"

\* ------------------------------------------- callers of the store's methods
StoreInsert(f, o) ==
    LET m == WithFields(ZeroMovie, f)
        r == Insert(movies, serial, m, o)
    IN  /\ SomeCallerIdle
        /\ InBounds(r.movies, r.serial)
        /\ movies' = r.movies
        /\ serial' = r.serial
        /\ last' = Returned("Insert", 0, 0, o, [r EXCEPT !.movie = Some(@)],
                            "none")
        /\ prev' = Found
        /\ written' = WrittenAfter(r.movies, m)
        /\ UNCHANGED <<pc, held>>

StoreGet(id, o) ==
    LET r == Get(movies, id, o)
    IN  /\ SomeCallerIdle
        /\ last' = Returned("Get", id, 0, o, r, "none")
        /\ prev' = Found
        /\ UNCHANGED <<movies, serial, pc, held, written>>

StoreUpdate(id, version, f, o) ==
    LET m == WithFields([ZeroMovie EXCEPT !.ID = id, !.Version = version], f)
        r == Update(movies, m, o)
    IN  /\ SomeCallerIdle
        /\ InBounds(r.movies, serial)
        /\ movies' = r.movies
        /\ last' = Returned("Update", id, version, o,
                            [r EXCEPT !.movie = Some(@)], "none")
        /\ prev' = Found
        /\ written' = WrittenAfter(r.movies, m)
        /\ UNCHANGED <<serial, pc, held>>

StoreDelete(id, o) ==
    LET r == Delete(movies, id, o)
    IN  /\ SomeCallerIdle
        /\ movies' = r.movies
        /\ last' = Returned("Delete", id, 0, o, r, "none")
        /\ prev' = Found
        /\ written' = WrittenAfter(r.movies, ZeroMovie)
        /\ UNCHANGED <<serial, pc, held>>

\* ------------------------------------------------------- updateMovieHandler
\* The decoded body of a PATCH request: each field None when the key is
\* absent, Some(value) when it is present.
NoPatch == [Title |-> None, Year |-> None, Runtime |-> None, Genres |-> None]
PatchTitle == [NoPatch EXCEPT !.Title = Some("Beta")]
PatchNoTitle == [NoPatch EXCEPT !.Title = Some("")]
PatchOldYear == [NoPatch EXCEPT !.Year = Some(1800)]
PatchNoGenres == [NoPatch EXCEPT !.Genres = Some(<<>>)]
Patches == {NoPatch, PatchTitle, PatchNoTitle, PatchOldYear, PatchNoGenres}
PatchYearRuntime == [NoPatch EXCEPT !.Year = Some(2001), !.Runtime = Some(102)]
PatchGenres == [NoPatch EXCEPT !.Genres = Some(<<"comedy", "war">>)]

\* A request body: one readJSON decodes into the input struct, or one it
\* rejects.
Bodies == {[decodes |-> TRUE, input |-> p] : p \in Patches}
            \cup {[decodes |-> FALSE, input |-> NoPatch]}

\* Request bodies that set two fields, one field, and one field to a value
\* ValidateMovie rejects.
PatchBodies ==
    {[decodes |-> TRUE, input |-> p] :
        p \in {PatchYearRuntime, PatchGenres, PatchOldYear}}
        \cup {[decodes |-> FALSE, input |-> NoPatch]}

\* readIDParam fails for an id parameter below 1.
ReadIDParamFails(id) == id < 1

\* (bug) the runtime of the request is not copied.
MergeSkipsRuntime(m, input) ==
    [m EXCEPT !.Title = IF input.Title # None THEN input.Title[1] ELSE @,
              !.Year = IF input.Year # None THEN input.Year[1] ELSE @,
              !.Genres = IF input.Genres # None THEN input.Genres ELSE @]

\* The fields of the request that are present, copied onto the fetched movie.
Merge(m, input) ==
    [m EXCEPT !.Title = IF input.Title # None THEN input.Title[1] ELSE @,
              !.Year = IF input.Year # None THEN input.Year[1] ELSE @,
              !.Runtime = IF input.Runtime # None THEN input.Runtime[1] ELSE @,
              !.Genres = IF input.Genres # None THEN input.Genres ELSE @]

\* updateMovieHandler up to its call of Update: readIDParam, Get, readJSON,
\* the copy of the present fields and ValidateMovie. The handler goes on
\* holding the merged movie, the movie as fetched and the input.
\* (bug) the handler goes on to its Update when the validator has errors.
updateMovieHandlerGetNoReturn(c, id, body, o) ==
    LET r == Get(movies, id, o)
        merged == Merge(r.movie[1], body.input)
    IN  /\ pc[c] = "idle"
        /\ IF ReadIDParamFails(id)
           THEN /\ last' = Handled(Returned("none", id, 0, "none", NoCall,
                                            "notFoundResponse"),
                                   "updateMovieHandler", None)
                /\ UNCHANGED <<pc, held>>
           ELSE IF r.err # Nil
           THEN /\ last' = Handled(Returned("Get", id, 0, o, r,
                                            IF r.err = ErrRecordNotFound
                                            THEN "notFoundResponse"
                                            ELSE "serverErrorResponse"),
                                   "updateMovieHandler", None)
                /\ UNCHANGED <<pc, held>>
           ELSE IF ~body.decodes
           THEN /\ last' = Handled(Returned("Get", id, 0, o, r,
                                            "badRequestResponse"),
                                   "updateMovieHandler", None)
                /\ UNCHANGED <<pc, held>>
           ELSE /\ last' = Handled(Returned("Get", id, 0, o, r, "none"),
                                   "updateMovieHandler", Some(merged))
                /\ held' = [held EXCEPT
                               ![c] = <<merged, r.movie[1], body.input>>]
                /\ pc' = [pc EXCEPT ![c] = "update"]
        /\ prev' = Found
        /\ UNCHANGED <<movies, serial, written>>

updateMovieHandlerGet(c, id, body, o) ==
    LET r == Get(movies, id, o)
        merged == Merge(r.movie[1], body.input)
    IN  /\ pc[c] = "idle"
        /\ IF ReadIDParamFails(id)
           THEN /\ last' = Handled(Returned("none", id, 0, "none", NoCall,
                                            "notFoundResponse"),
                                   "updateMovieHandler", None)
                /\ UNCHANGED <<pc, held>>
           ELSE IF r.err # Nil
           THEN /\ last' = Handled(Returned("Get", id, 0, o, r,
                                            IF r.err = ErrRecordNotFound
                                            THEN "notFoundResponse"
                                            ELSE "serverErrorResponse"),
                                   "updateMovieHandler", None)
                /\ UNCHANGED <<pc, held>>
           ELSE IF ~body.decodes
           THEN /\ last' = Handled(Returned("Get", id, 0, o, r,
                                            "badRequestResponse"),
                                   "updateMovieHandler", None)
                /\ UNCHANGED <<pc, held>>
           ELSE IF ~Valid(ValidateMovie(merged))
           THEN /\ last' = Handled(Returned("Get", id, 0, o, r,
                                            "failedValidationResponse"),
                                   "updateMovieHandler", Some(merged))
                /\ UNCHANGED <<pc, held>>
           ELSE /\ last' = Handled(Returned("Get", id, 0, o, r, "none"),
                                   "updateMovieHandler", Some(merged))
                /\ held' = [held EXCEPT
                               ![c] = <<merged, r.movie[1], body.input>>]
                /\ pc' = [pc EXCEPT ![c] = "update"]
        /\ prev' = Found
        /\ UNCHANGED <<movies, serial, written>>

\* (bug) every error of Update is answered with serverErrorResponse.
updateMovieHandlerUpdateServerError(c, o) ==
    LET m == held[c][1]
        r == Update(movies, m, o)
    IN  /\ pc[c] = "update"
        /\ InBounds(r.movies, serial)
        /\ movies' = r.movies
        /\ last' = Handled(Returned("Update", m.ID, m.Version, o,
                                    [r EXCEPT !.movie = Some(@)],
                                    IF r.err = Nil THEN "200 OK"
                                    ELSE "serverErrorResponse"),
                           "updateMovieHandler", Some(m))
                       @@ [fetched |-> held[c][2], input |-> held[c][3]]
        /\ prev' = Found
        /\ held' = [held EXCEPT ![c] = None]
        /\ pc' = [pc EXCEPT ![c] = "idle"]
        /\ written' = WrittenAfter(r.movies, m)
        /\ UNCHANGED serial

\* updateMovieHandler from its call of Update to its response.
updateMovieHandlerUpdate(c, o) ==
    LET m == held[c][1]
        r == Update(movies, m, o)
    IN  /\ pc[c] = "update"
        /\ InBounds(r.movies, serial)
        /\ movies' = r.movies
        /\ last' = Handled(Returned("Update", m.ID, m.Version, o,
                                    [r EXCEPT !.movie = Some(@)],
                                    IF r.err = Nil THEN "200 OK"
                                    ELSE IF r.err = ErrEditConflict
                                    THEN "editConflictResponse"
                                    ELSE "serverErrorResponse"),
                           "updateMovieHandler", Some(m))
                       @@ [fetched |-> held[c][2], input |-> held[c][3]]
        /\ prev' = Found
        /\ held' = [held EXCEPT ![c] = None]
        /\ pc' = [pc EXCEPT ![c] = "idle"]
        /\ written' = WrittenAfter(r.movies, m)
        /\ UNCHANGED serial

\* -------------------------------------- showMovieHandler, deleteMovieHandler
showMovieHandler(id, o) ==
    LET r == Get(movies, id, o)
    IN  /\ SomeCallerIdle
        /\ prev' = Found
        /\ UNCHANGED <<movies, serial, pc, held, written>>
        /\ IF ReadIDParamFails(id)
           THEN last' = Handled(Returned("none", id, 0, "none", NoCall,
                                         "notFoundResponse"),
                                "showMovieHandler", None)
           ELSE last' = Handled(Returned("Get", id, 0, o, r,
                                         IF r.err = Nil THEN "200 OK"
                                         ELSE IF r.err = ErrRecordNotFound
                                         THEN "notFoundResponse"
                                         ELSE "serverErrorResponse"),
                                "showMovieHandler", None)

deleteMovieHandler(id, o) ==
    LET r == Delete(movies, id, o)
    IN  /\ SomeCallerIdle
        /\ prev' = Found
        /\ UNCHANGED <<serial, pc, held>>
        /\ IF ReadIDParamFails(id)
           THEN /\ last' = Handled(Returned("none", id, 0, "none", NoCall,
                                            "notFoundResponse"),
                                   "deleteMovieHandler", None)
                /\ UNCHANGED <<movies, written>>
           ELSE /\ movies' = r.movies
                /\ written' = WrittenAfter(r.movies, ZeroMovie)
                /\ last' = Handled(Returned("Delete", id, 0, o, r,
                                            IF r.err = Nil THEN "200 OK"
                                            ELSE IF r.err = ErrRecordNotFound
                                            THEN "notFoundResponse"
                                            ELSE "serverErrorResponse"),
                                   "deleteMovieHandler", None)

\* ------------------------------------------------------ createMovieHandler
\* A request body: the input struct readJSON decodes it into, or one it
\* rejects.
CreateBodies ==
    {[decodes |-> TRUE, input |-> f] : f \in {FieldsA, FieldsC, FieldsOld}}
        \cup {[decodes |-> FALSE, input |-> FieldsA]}

\* (bug) the handler goes on to Insert when the validator has errors.
createMovieHandlerNoReturn(body, o) ==
    LET m == WithFields(ZeroMovie, body.input)
        r == Insert(movies, serial, m, o)
    IN  /\ SomeCallerIdle
        /\ prev' = Found
        /\ UNCHANGED <<pc, held>>
        /\ IF ~body.decodes
           THEN /\ last' = Handled(Returned("none", 0, 0, "none", NoCall,
                                            "badRequestResponse"),
                                   "createMovieHandler", None)
                /\ UNCHANGED <<movies, serial, written>>
           ELSE /\ r.serial <= MaxListRows
                /\ movies' = r.movies
                /\ serial' = r.serial
                /\ last' = Handled(Returned("Insert", 0, 0, o,
                                            [r EXCEPT !.movie = Some(@)],
                                            IF r.err = Nil THEN "201 Created"
                                            ELSE "serverErrorResponse"),
                                   "createMovieHandler", Some(m))
                /\ written' = WrittenAfter(r.movies, m)

\* (bug) the handler goes on with the zero input when readJSON failed.
createMovieHandlerIgnoresDecodeError(body, o) ==
    LET m == WithFields(ZeroMovie, body.input)
        r == Insert(movies, serial, m, o)
    IN  /\ SomeCallerIdle
        /\ prev' = Found
        /\ UNCHANGED <<pc, held>>
        /\ IF ~Valid(ValidateMovie(m))
           THEN /\ last' = Handled(Returned("none", 0, 0, "none", NoCall,
                                            "failedValidationResponse"),
                                   "createMovieHandler", Some(m))
                /\ UNCHANGED <<movies, serial, written>>
           ELSE /\ r.serial <= MaxListRows
                /\ movies' = r.movies
                /\ serial' = r.serial
                /\ last' = Handled(Returned("Insert", 0, 0, o,
                                            [r EXCEPT !.movie = Some(@)],
                                            IF r.err = Nil THEN "201 Created"
                                            ELSE "serverErrorResponse"),
                                   "createMovieHandler", Some(m))
                /\ written' = WrittenAfter(r.movies, m)

createMovieHandler(body, o) ==
    LET m == WithFields(ZeroMovie, body.input)
        r == Insert(movies, serial, m, o)
    IN  /\ SomeCallerIdle
        /\ prev' = Found
        /\ UNCHANGED <<pc, held>>
        /\ IF ~body.decodes
           THEN /\ last' = Handled(Returned("none", 0, 0, "none", NoCall,
                                            "badRequestResponse"),
                                   "createMovieHandler", None)
                /\ UNCHANGED <<movies, serial, written>>
           ELSE IF ~Valid(ValidateMovie(m))
           THEN /\ last' = Handled(Returned("none", 0, 0, "none", NoCall,
                                            "failedValidationResponse"),
                                   "createMovieHandler", Some(m))
                /\ UNCHANGED <<movies, serial, written>>
           ELSE /\ r.serial <= MaxListRows
                /\ movies' = r.movies
                /\ serial' = r.serial
                /\ last' = Handled(Returned("Insert", 0, 0, o,
                                            [r EXCEPT !.movie = Some(@)],
                                            IF r.err = Nil THEN "201 Created"
                                            ELSE "serverErrorResponse"),
                                   "createMovieHandler", Some(m))
                /\ written' = WrittenAfter(r.movies, m)

\* ------------------------------------------------------------ data.Runtime
\* The Runtime type and its JSON form. Text is a sequence of characters; a
\* JSON value is its text and whether it is a JSON string (quoted).
Digits == <<"0", "1", "2", "3", "4", "5", "6", "7", "8", "9">>
MaxInt32 == 2147483647
ErrInvalidRuntimeFormat == "invalid runtime format"

DigitValue(ch) == (CHOOSE i \in DOMAIN Digits : Digits[i] = ch) - 1

\* The decimal digits of a natural number.
RECURSIVE FormatNat(_)
FormatNat(n) ==
    IF n < 10 THEN <<Digits[n + 1]>>
    ELSE FormatNat(n \div 10) \o <<Digits[(n % 10) + 1]>>

\* The verb %d.
FormatInt(n) == IF n < 0 THEN <<"-">> \o FormatNat(-n) ELSE FormatNat(n)

\* The value of a sequence of digits, or -1 when it is beyond MaxInt32.
RECURSIVE Magnitude(_)
Magnitude(d) ==
    IF d = <<>> THEN 0
    ELSE LET high == Magnitude(SubSeq(d, 1, Len(d) - 1))
             low == DigitValue(d[Len(d)])
         IN  IF high < 0 \/ high > (MaxInt32 - low) \div 10 THEN -1
             ELSE high * 10 + low

\* strconv.ParseInt(s, 10, 32): an optional sign and one digit or more, of
\* a value the 32 bits hold.
ParseInt(s) ==
    LET sign == IF s # <<>> /\ s[1] \in {"+", "-"} THEN s[1] ELSE ""
        d == IF sign = "" THEN s ELSE Tail(s)
        isNumber == d # <<>> /\ \A i \in DOMAIN d : d[i] \in Range(Digits)
        mag == Magnitude(d)
        isMinInt32 == /\ sign = "-"
                      /\ Magnitude(SubSeq(d, 1, Len(d) - 1)) = MaxInt32 \div 10
                      /\ d[Len(d)] = "8"
    IN  IF ~isNumber THEN [value |-> 0, ok |-> FALSE]
        ELSE IF mag >= 0
        THEN [value |-> IF sign = "-" THEN -mag ELSE mag, ok |-> TRUE]
        ELSE IF isMinInt32 THEN [value |-> -MaxInt32 - 1, ok |-> TRUE]
        ELSE [value |-> 0, ok |-> FALSE]

\* strings.Split(s, sep).
RECURSIVE Split(_, _)
Split(s, sep) ==
    IF \A i \in DOMAIN s : s[i] # sep THEN <<s>>
    ELSE LET i == CHOOSE i \in DOMAIN s :
                     s[i] = sep /\ \A j \in 1..(i - 1) : s[j] # sep
         IN  <<SubSeq(s, 1, i - 1)>> \o Split(SubSeq(s, i + 1, Len(s)), sep)

\* Runtime.MarshalJSON: the string "<runtime> mins".
MarshalJSON(r) ==
    [quoted |-> TRUE, text |-> FormatInt(r) \o <<" ", "m", "i", "n", "s">>]

\* Runtime.UnmarshalJSON: a JSON string of two parts, a number and "mins".
UnmarshalJSON(json) ==
    LET parts == Split(json.text, " ")
        i == ParseInt(parts[1])
    IN  IF \/ ~json.quoted
           \/ Len(parts) # 2
           \/ parts[2] # <<"m", "i", "n", "s">>
           \/ ~i.ok
        THEN [value |-> 0, err |-> ErrInvalidRuntimeFormat]
        ELSE [value |-> i.value, err |-> Nil]

\* readJSON into the input struct of createMovieHandler, of a body whose
\* other fields are those of FieldsA: it fails when a field does.
readJSON(runtime) ==
    LET r == UnmarshalJSON(runtime)
    IN  [decodes |-> r.err = Nil,
         input |-> [FieldsA EXCEPT !.Runtime = r.value]]

\* A JSON string of the text, and a JSON number of it.
Quoted(text) == [quoted |-> TRUE, text |-> text]
Bare(text) == [quoted |-> FALSE, text |-> text]

\* Runtimes to write, and JSON values to read as a runtime.
RuntimeValues == {-5, 0, 7, 90, 102, MaxInt32}
RuntimeJSON ==
    {Quoted(<<"1", "0", "2", " ", "m", "i", "n", "s">>),
     Quoted(<<"0", " ", "m", "i", "n", "s">>),
     Quoted(<<"-", "5", " ", "m", "i", "n", "s">>),
     Quoted(<<"+", "7", " ", "m", "i", "n", "s">>),
     Quoted(<<"2", "1", "4", "7", "4", "8", "3", "6", "4", "7", " ",
              "m", "i", "n", "s">>),
     Quoted(<<"2", "1", "4", "7", "4", "8", "3", "6", "4", "8", " ",
              "m", "i", "n", "s">>),
     Bare(<<"1", "0", "2">>),
     Quoted(<<"1", "0", "2">>),
     Quoted(<<"1", "0", "2", " ", "m", "i", "n", "u", "t", "e", "s">>),
     Quoted(<<"1", "0", "2", " ", "m", "i", "n">>),
     Quoted(<<"1", "0", "2", " ", "M", "i", "n", "s">>),
     Quoted(<<"1", "0", "2", "m", "i", "n", "s">>),
     Quoted(<<"1", ".", "5", " ", "m", "i", "n", "s">>),
     Quoted(<<"x", " ", "m", "i", "n", "s">>),
     Quoted(<<" ", "m", "i", "n", "s">>),
     Quoted(<<"m", "i", "n", "s">>),
     Quoted(<<"m", "i", "n", "s", " ", "1", "0", "2">>),
     Quoted(<<"1", "0", "2", " ", " ", "m", "i", "n", "s">>),
     Quoted(<<"1", "0", "2", " ", "m", "i", "n", "s", " ">>),
     Quoted(<<"1", " ", "0", "2", " ", "m", "i", "n", "s">>),
     Quoted(<<>>)}

\* A runtime is written and what was written is read back.
RuntimeRoundTrip(r) ==
    /\ last' = [op |-> "MarshalJSON", value |-> r, json |-> MarshalJSON(r),
                back |-> UnmarshalJSON(MarshalJSON(r))]
    /\ prev' = Found
    /\ UNCHANGED <<movies, serial, pc, held, written>>

\* A JSON value is read as a runtime.
RuntimeRead(json) ==
    /\ last' = [op |-> "UnmarshalJSON", json |-> json,
                back |-> UnmarshalJSON(json)]
    /\ prev' = Found
    /\ UNCHANGED <<movies, serial, pc, held, written>>

\* A request to create a movie whose body gives the runtime as json.
createMovieRequest(json, o) == createMovieHandler(readJSON(json), o)

\* -------------------------------------------------------- listMoviesHandler
\* The record of a list call: what GetAll was given and what it returned.
Listed(op, title, genres, f, o, r, status) ==
    [op |-> op, id |-> 0, ver |-> 0,
     o |-> IF r.calls = 0 THEN "none" ELSE o,
     err |-> r.err, movie |-> r.movies, calls |-> r.calls, status |-> status,
     title |-> title, genres |-> genres, filters |-> f,
     metadata |-> r.metadata, total |-> r.total, panics |-> r.panics,
     column |-> r.column, direction |-> r.direction]

\* GetAll was not called.
NoList ==
    [movies |-> None, metadata |-> ZeroMetadata, total |-> 0, err |-> Nil,
     calls |-> 0, panics |-> FALSE, column |-> None, direction |-> None]

\* The table has been written since it was listed last. GetAll changes
\* nothing, so a list after a list reaches no table that this one does not.
NotListedYet == last.op \notin {"GetAll", "ValidateFilters"}

SearchTexts == {"", "beta ALPHA"}
TagFilters == {<<>>, <<"drama">>, <<"war", "Drama">>, <<"drama", "war">>}
SortArgs == Range(SortSafelist) \cup {"genres"}

\* A caller of the store that calls GetAll without ValidateFilters.
StoreGetAll(title, genres, page, pageSize, sort, o) ==
    LET f == [Page |-> page, PageSize |-> pageSize, Sort |-> sort,
              SortSafelist |-> SortSafelist]
        r == GetAll(movies, title, genres, f, o)
    IN  /\ SomeCallerIdle
        /\ NotListedYet
        /\ last' = Listed("GetAll", title, genres, f, o, r, "none")
        /\ prev' = Found
        /\ UNCHANGED <<movies, serial, pc, held, written>>

\* The query string of a list request: page, page_size and sort are None
\* when the key is absent.
DefaultPage == 1
DefaultPageSize == 20
DefaultSort == "id"

QueryStrings ==
    [title : {""}, genres : {<<>>},
     page : {None, Some(0), Some(2), Some(MaxPageAllowed + 1)},
     page_size : {None, Some(1), Some(MaxPageSizeAllowed + 1)},
     sort : {None, Some("-year"), Some("genres"), Some("-version")}]

OrDefault(value, default) == IF value = None THEN default ELSE value[1]

\* (bug) the handler goes on to GetAll when the validator has errors.
listMoviesHandlerNoReturn(qs, o) ==
    LET f == [Page |-> OrDefault(qs.page, DefaultPage),
              PageSize |-> OrDefault(qs.page_size, DefaultPageSize),
              Sort |-> OrDefault(qs.sort, DefaultSort),
              SortSafelist |-> SortSafelist]
        r == GetAll(movies, qs.title, qs.genres, f, o)
    IN  /\ SomeCallerIdle
        /\ NotListedYet
        /\ prev' = Found
        /\ UNCHANGED <<movies, serial, pc, held, written>>
        /\ last' = Listed("GetAll", qs.title, qs.genres, f, o, r,
                          IF r.panics THEN "panic"
                          ELSE IF r.err # Nil THEN "serverErrorResponse"
                          ELSE "200 OK")

listMoviesHandler(qs, o) ==
    LET f == [Page |-> OrDefault(qs.page, DefaultPage),
              PageSize |-> OrDefault(qs.page_size, DefaultPageSize),
              Sort |-> OrDefault(qs.sort, DefaultSort),
              SortSafelist |-> SortSafelist]
        r == GetAll(movies, qs.title, qs.genres, f, o)
    IN  /\ SomeCallerIdle
        /\ NotListedYet
        /\ prev' = Found
        /\ UNCHANGED <<movies, serial, pc, held, written>>
        /\ IF ~Valid(ValidateFilters(f))
           THEN last' = Listed("ValidateFilters", qs.title, qs.genres, f,
                               "none", NoList, "failedValidationResponse")
           ELSE last' = Listed("GetAll", qs.title, qs.genres, f, o, r,
                               IF r.panics THEN "panic"
                               ELSE IF r.err # Nil THEN "serverErrorResponse"
                               ELSE "200 OK")

\* ------------------------------------------------- store calls in flight
\* A call of a method of the store in two steps: the method sends its
\* statement under a context of its own and waits (pc "waiting", the call in
\* held), and then returns, either because the backend answered or because
\* its context expired.
Calls ==
    {[op |-> "Insert", id |-> 0, ver |-> 0],
     [op |-> "Get", id |-> 1, ver |-> 0],
     [op |-> "Delete", id |-> 1, ver |-> 0],
     [op |-> "GetAll", id |-> 0, ver |-> 0]}
        \cup {[op |-> "Update", id |-> 1, ver |-> v] : v \in VersionArgs}

\* (bug) Update sends its statement under context.Background().
ContextHasDeadlineButUpdate(op) ==
    op \in {"Insert", "Get", "Delete", "GetAll"}

\* ctx, cancel := context.WithTimeout(context.Background(), 3*time.Second):
\* the methods whose statement is sent under a context with a deadline.
ContextHasDeadline(op) ==
    op \in {"Insert", "Get", "Update", "Delete", "GetAll"}

\* How a call in flight may end when its context expires: after the
\* statement ran ("lost") or before it did ("late").
ExpiryOutcomes == {"lost", "late"}

\* The calls in flight of a method.
InFlight(op) == {c \in Callers : pc[c] = "waiting" /\ held[c][1].op = op}

\* The highest version in the table.
TopVersion ==
    IF DOMAIN movies = {} THEN DefaultVersion
    ELSE CHOOSE v \in {movies[i].version : i \in DOMAIN movies} :
            \A i \in DOMAIN movies : movies[i].version <= v

\* The filters of the list call in flight.
FirstPage ==
    [Page |-> 1, PageSize |-> MaxId, Sort |-> "id",
     SortSafelist |-> SortSafelist]

\* The method sends its statement and waits. No more calls are begun than
\* the bounds on the ids and the versions leave room for.
StoreCallBegins(c, call) ==
    /\ pc[c] = "idle"
    /\ call.op = "Insert" => serial + Cardinality(InFlight("Insert")) < MaxId
    /\ call.op = "Update" =>
          TopVersion + Cardinality(InFlight("Update")) < MaxVersion
    /\ pc' = [pc EXCEPT ![c] = "waiting"]
    /\ held' = [held EXCEPT ![c] = Some(call)]
    /\ UNCHANGED <<movies, serial, last, prev, written>>

\* The call in flight of caller c returns, the backend's outcome being o.
StoreCallEnds(c, o) ==
    LET call == held[c][1]
        m == IF call.op = "Insert" THEN WithFields(ZeroMovie, FieldsA)
             ELSE WithFields([ZeroMovie EXCEPT !.ID = call.id,
                                               !.Version = call.ver], FieldsB)
        ins == Insert(movies, serial, m, o)
        get == Get(movies, call.id, o)
        upd == Update(movies, m, o)
        del == Delete(movies, call.id, o)
        all == GetAll(movies, "", <<>>, FirstPage, o)
        tbl == CASE call.op = "Insert" -> ins.movies
                 [] call.op = "Update" -> upd.movies
                 [] call.op = "Delete" -> del.movies
                 [] OTHER -> movies
    IN  /\ pc[c] = "waiting"
        /\ movies' = tbl
        /\ serial' = IF call.op = "Insert" THEN ins.serial ELSE serial
        /\ written' = WrittenAfter(tbl, m)
        /\ prev' = Found
        /\ last' =
              CASE call.op = "Insert" ->
                     Returned("Insert", 0, 0, o,
                              [ins EXCEPT !.movie = Some(@)], "none")
                [] call.op = "Get" -> Returned("Get", call.id, 0, o, get, "none")
                [] call.op = "Update" ->
                     Returned("Update", call.id, call.ver, o,
                              [upd EXCEPT !.movie = Some(@)], "none")
                [] call.op = "Delete" ->
                     Returned("Delete", call.id, 0, o, del, "none")
                [] call.op = "GetAll" ->
                     Listed("GetAll", "", <<>>, FirstPage, o, all, "none")
        /\ pc' = [pc EXCEPT ![c] = "idle"]
        /\ held' = [held EXCEPT ![c] = None]

\* The backend answers the call in flight of caller c, or refuses it.
BackendAnswers(c, o) == StoreCallEnds(c, o)

\* The context of the call in flight of caller c expires.
ContextExpires(c, o) ==
    /\ pc[c] = "waiting"
    /\ ContextHasDeadline(held[c][1].op)
    /\ StoreCallEnds(c, o)

\* ------------------------------------- concurrent calls whose results stay
\* The call of Update or Delete in flight of caller c returns, the backend's
\* outcome being o. The caller keeps the call with the outcome, the error
\* returned, whether the statement changed the table, and the callers whose
\* calls were in flight at the return.
ConcurrentCallReturns(c, o) ==
    LET call == held[c][1]
        m == WithFields([ZeroMovie EXCEPT !.ID = call.id,
                                          !.Version = call.ver], FieldsB)
        upd == Update(movies, m, o)
        r == IF call.op = "Update" THEN [upd EXCEPT !.movie = Some(@)]
             ELSE Delete(movies, call.id, o)
    IN  /\ pc[c] = "waiting"
        /\ movies' = r.movies
        /\ last' = Returned(call.op, call.id, call.ver, o, r, "none")
        /\ prev' = Found
        /\ written' = WrittenAfter(r.movies, IF call.op = "Update" THEN m
                                             ELSE ZeroMovie)
        /\ pc' = [pc EXCEPT ![c] = "done"]
        /\ held' = [held EXCEPT ![c] = Some(
              [op |-> call.op, id |-> call.id, ver |-> call.ver, o |-> o,
               err |-> r.err, applied |-> r.movies # movies,
               overlap |-> {d \in Callers \ {c} : pc[d] = "waiting"}])]
        /\ UNCHANGED serial

\* ------------------------------------------- callers that retry an Update
\* A caller that holds an id and a version and presents them to Update again
\* and again, whatever Update returned, a timeout included. What it holds
\* keeps count: wins, the calls that returned nil or rewrote the row; stale,
\* whether a call returned ErrEditConflict when the row was deleted or
\* beyond the version; early, whether one did when the row was not inserted
\* yet or not yet at the version.
TokenOf(id, version) ==
    [id |-> id, ver |-> version, wins |-> 0, stale |-> FALSE,
     early |-> FALSE]

\* The row of the id was deleted, or is beyond the version.
RowPassed(tbl, ser, id, version) ==
    \/ id \in 1..ser /\ id \notin DOMAIN tbl
    \/ id \in DOMAIN tbl /\ tbl[id].version > version

TakeToken(c, id, version) ==
    /\ held[c] = None
    /\ held' = [held EXCEPT ![c] = Some(TokenOf(id, version))]
    /\ UNCHANGED <<movies, serial, pc, last, prev, written>>

PresentToken(c, o) ==
    LET t == held[c][1]
        m == WithFields([ZeroMovie EXCEPT !.ID = t.id, !.Version = t.ver],
                        FieldsB)
        r == Update(movies, m, o)
        passed == RowPassed(movies, serial, t.id, t.ver)
    IN  /\ held[c] # None
        /\ InBounds(r.movies, serial)
        /\ movies' = r.movies
        /\ last' = Returned("Update", t.id, t.ver, o,
                            [r EXCEPT !.movie = Some(@)], "none")
        /\ prev' = Found
        /\ written' = WrittenAfter(r.movies, m)
        /\ held' = [held EXCEPT ![c] = Some(
              [t EXCEPT
                 !.wins = IF r.err = Nil \/ r.movies # movies
                          THEN @ + 1 ELSE @,
                 !.stale = @ \/ (r.err = ErrEditConflict /\ passed),
                 !.early = @ \/ (r.err = ErrEditConflict /\ ~passed)])]
        /\ UNCHANGED <<serial, pc>>

\* ------------------------------------------------ callers of the validators
\* The record of a validation: what was validated and the errors map.
Validated(op, subject, errors) ==
    [op |-> op, id |-> 0, ver |-> 0, o |-> "none", err |-> Nil,
     movie |-> None, calls |-> 0, status |-> "none",
     subject |-> subject, errors |-> errors]

\* A string of n bytes.
RECURSIVE Bytes(_)
Bytes(n) ==
    IF n = 0 THEN ""
    ELSE IF n % 2 = 1 THEN "a" \o Bytes(n - 1)
    ELSE LET half == Bytes(n \div 2) IN half \o half

MaxTitleBytes == 500

\* The values a caller may put into the Filters and Movie structs.
FilterPages == {-1, 0, 1, MaxPageAllowed, MaxPageAllowed + 1}
FilterPageSizes == {-1, 0, 1, MaxPageSizeAllowed, MaxPageSizeAllowed + 1}
FilterSorts == {"id", "-runtime", "genres", "-version", ""}
MovieTitles == {"", "Alpha", Bytes(MaxTitleBytes), Bytes(MaxTitleBytes + 1)}
MovieYears == {0, 1887, 1888, CurrentYear, CurrentYear + 1}
MovieRuntimes == {-1, 0, 1}
MovieGenres ==
    {None, Some(<<>>), Some(<<"drama">>), Some(<<"drama", "drama">>),
     Some(<<"a", "b", "c", "d", "e">>), Some(<<"a", "b", "c", "d", "e", "f">>),
     Some(<<"a", "b", "c", "d", "a">>)}

\* data.ValidateFilters(v, input.Filters) on a new Validator.
CallValidateFilters(page, pageSize, sort) ==
    LET f == [Page |-> page, PageSize |-> pageSize, Sort |-> sort,
              SortSafelist |-> SortSafelist]
    IN  /\ SomeCallerIdle
        /\ last' = Validated("ValidateFilters", f, ValidateFilters(f))
        /\ prev' = Found
        /\ UNCHANGED <<movies, serial, pc, held, written>>

\* (bug) the values of LIMIT and OFFSET change places.
GetAllArgsSwapped(title, genres, f) ==
    [title |-> title, genres |-> genres, limit |-> offset(f),
     offset |-> limit(f)]

\* args := []any{title, pq.Array(genres), filters.limit(), filters.offset()}
GetAllArgs(title, genres, f) ==
    [title |-> title, genres |-> genres, limit |-> limit(f),
     offset |-> offset(f)]

\* A list request up to the query of GetAll: ValidateFilters on the filters
\* and, when it finds no error, the placeholder values of the statement.
listMoviesQuery(page, pageSize, sort) ==
    LET f == [Page |-> page, PageSize |-> pageSize, Sort |-> sort,
              SortSafelist |-> SortSafelist]
        errors == ValidateFilters(f)
    IN  /\ SomeCallerIdle
        /\ last' = Validated("listMovies", f, errors)
                       @@ [args |-> IF Valid(errors)
                                    THEN Some(GetAllArgs("", <<>>, f))
                                    ELSE None]
        /\ prev' = Found
        /\ UNCHANGED <<movies, serial, pc, held, written>>

\* data.ValidateMovie(v, movie) on a new Validator.
CallValidateMovie(title, year, runtime, genres) ==
    LET m == [ZeroMovie EXCEPT !.Title = title, !.Year = year,
                               !.Runtime = runtime, !.Genres = genres]
    IN  /\ SomeCallerIdle
        /\ last' = Validated("ValidateMovie", m, ValidateMovie(m))
        /\ prev' = Found
        /\ UNCHANGED <<movies, serial, pc, held, written>>

\* ------------------------------------------------------------------- Next
\* The store's methods, called by any number of callers, one statement each.
Next ==
    \/ \E f \in ItemFields, o \in Outcomes : StoreInsert(f, o)
    \/ \E id \in IdArgs, o \in ReadOutcomes : StoreGet(id, o)
    \/ \E id \in IdArgs, v \in VersionArgs, f \in ItemFields, o \in Outcomes :
          StoreUpdate(id, v, f, o)
    \/ \E id \in IdArgs, o \in Outcomes : StoreDelete(id, o)

Spec == Init /\ [][Next]_vars

\* Callers inside updateMovieHandler, between its Get and its Update of the
\* one row of the table, while others update and delete that row.
RaceNext ==
    \/ serial = 0 /\ StoreInsert(FieldsA, "ok")
    \/ StoreDelete(1, "ok")
    \/ \E v \in VersionArgs : StoreUpdate(1, v, FieldsA, "ok")
    \/ \E c \in Callers, id \in {0, 1}, body \in Bodies, o \in ReadOutcomes :
          updateMovieHandlerGet(c, id, body, o)
    \/ \E c \in Callers, o \in Outcomes : updateMovieHandlerUpdate(c, o)

RaceSpec == Init /\ [][RaceNext]_vars

\* A table that createMovieHandler fills and deleteMovieHandler empties,
\* listed by listMoviesHandler and by callers of GetAll.
ListNext ==
    \/ \E body \in CreateBodies : createMovieHandler(body, "ok")
    \/ \E id \in 1..MaxListRows : StoreDelete(id, "ok")
    \/ \E title \in SearchTexts, genres \in TagFilters, page \in PageArgs,
          pageSize \in PageArgs, sort \in SortArgs :
          StoreGetAll(title, genres, page, pageSize, sort, "ok")
    \/ \E qs \in QueryStrings, o \in ReadOutcomes : listMoviesHandler(qs, o)

ListSpec == Init /\ [][ListNext]_vars

\* The five methods of the store, under every outcome of the backend.
ErrNext ==
    \/ \E o \in Outcomes : StoreInsert(FieldsA, o)
    \/ \E id \in 0..MaxId, o \in ReadOutcomes : StoreGet(id, o)
    \/ \E v \in VersionArgs, o \in Outcomes : StoreUpdate(1, v, FieldsB, o)
    \/ \E id \in 0..MaxId, o \in Outcomes : StoreDelete(id, o)
    \/ \E sort \in {"id", "genres"}, o \in ListOutcomes :
          StoreGetAll("", <<>>, 1, 1, sort, o)

ErrSpec == Init /\ [][ErrNext]_vars

\* The two validators, each on every combination of the values above.
ValidNext ==
    \/ \E page \in FilterPages, pageSize \in FilterPageSizes,
          sort \in FilterSorts : CallValidateFilters(page, pageSize, sort)
    \/ \E title \in MovieTitles, year \in MovieYears,
          runtime \in MovieRuntimes, genres \in MovieGenres :
          CallValidateMovie(title, year, runtime, genres)

ValidSpec == Init /\ [][ValidNext]_vars

\* The handlers of the movies routes but the list, run by concurrent
\* requests under every outcome of the backend.
HandlerNext ==
    \/ \E body \in CreateBodies, o \in Outcomes :
          serial = 0 /\ createMovieHandler(body, o)
    \/ \E id \in {0, 1}, o \in ReadOutcomes : showMovieHandler(id, o)
    \/ \E c \in Callers, id \in {0, 1}, body \in PatchBodies,
          o \in ReadOutcomes : updateMovieHandlerGet(c, id, body, o)
    \/ \E c \in Callers, o \in Outcomes : updateMovieHandlerUpdate(c, o)
    \/ \E id \in {0, 1}, o \in Outcomes : deleteMovieHandler(id, o)

HandlerSpec == Init /\ [][HandlerNext]_vars

\* Calls in flight at a backend that may never answer. The timer of a
\* context fires: an expiry that stays possible happens.
TimeoutNext ==
    \/ \E c \in Callers, call \in Calls : StoreCallBegins(c, call)
    \/ \E c \in Callers, o \in ReadOutcomes : BackendAnswers(c, o)
    \/ \E c \in Callers, o \in ExpiryOutcomes : ContextExpires(c, o)

TimeoutSpec ==
    /\ Init
    /\ [][TimeoutNext]_vars
    /\ \A c \in Callers :
          WF_vars(\E o \in ExpiryOutcomes : ContextExpires(c, o))

\* Callers that each call Update, presenting the version the row has, or
\* Delete, of a row that is there, while the calls of others are in flight.
ConcurrentNext ==
    \/ StoreInsert(FieldsA, "ok")
    \/ \E c \in Callers, call \in Calls :
          /\ call.op \in {"Update", "Delete"}
          /\ call.id \in DOMAIN movies
          /\ call.op = "Update" => movies[call.id].version = call.ver
          /\ StoreCallBegins(c, call)
    \/ \E c \in Callers, o \in Outcomes : ConcurrentCallReturns(c, o)

ConcurrentSpec == Init /\ [][ConcurrentNext]_vars

\* Callers that retry their Update while rows are inserted and deleted.
TokenNext ==
    \/ StoreInsert(FieldsA, "ok")
    \/ \E id \in 1..MaxId : StoreDelete(id, "ok")
    \/ \E c \in Callers, id \in 1..MaxId, v \in VersionArgs :
          TakeToken(c, id, v)
    \/ \E c \in Callers, o \in Outcomes : PresentToken(c, o)

TokenSpec == Init /\ [][TokenNext]_vars

\* List requests with pages and page sizes at, inside and beyond the ends of
\* the ranges ValidateFilters permits.
QueryNext ==
    \E page \in FilterPages \cup {2, 3}, pageSize \in FilterPageSizes \cup {20},
       sort \in FilterSorts : listMoviesQuery(page, pageSize, sort)

QuerySpec == Init /\ [][QueryNext]_vars

\* The five handlers of the movies routes, run by concurrent requests.
AllHandlersNext ==
    \/ \E body \in CreateBodies, o \in Outcomes :
          serial = 0 /\ createMovieHandler(body, o)
    \/ \E id \in {0, 1}, o \in ReadOutcomes : showMovieHandler(id, o)
    \/ \E c \in Callers, id \in {0, 1}, body \in PatchBodies,
          o \in ReadOutcomes : updateMovieHandlerGet(c, id, body, o)
    \/ \E c \in Callers, o \in Outcomes : updateMovieHandlerUpdate(c, o)
    \/ \E id \in {0, 1}, o \in Outcomes : deleteMovieHandler(id, o)
    \/ \E qs \in QueryStrings, o \in ReadOutcomes : listMoviesHandler(qs, o)

AllHandlersSpec == Init /\ [][AllHandlersNext]_vars

\* Runtimes written and read, alone and in the body of a request to create
\* a movie.
RuntimeNext ==
    \/ \E r \in RuntimeValues : RuntimeRoundTrip(r)
    \/ \E json \in RuntimeJSON : RuntimeRead(json)
    \/ \E json \in RuntimeJSON, o \in Outcomes : createMovieRequest(json, o)

RuntimeSpec == Init /\ [][RuntimeNext]_vars

\* ------------------------------------------------------------- properties
\* The properties below are invariants over the record of the operation that
\* ran last (last), the table and the sequence as it found them (prev) and
\* the table as it left them (movies, serial).

\* The last operation was answered by the backend.
Answered == last.o = "ok"

\* The struct the last Insert or Update was given, as the method left it.
Presented == last.movie[1]

HadRow(id) == id \in DOMAIN prev.movies
HasRow(id) == id \in DOMAIN movies

\* id was issued to a row that the last operation no longer found.
WasDeleted(id) == id \in 1..prev.serial /\ ~HadRow(id)

\* Row id holds the four fields of m at version v.
RowHolds(id, m, v) ==
    /\ movies[id].id = id
    /\ movies[id].title = m.Title
    /\ movies[id].year = m.Year
    /\ movies[id].runtime = m.Runtime
    /\ Some(movies[id].genres) = m.Genres
    /\ movies[id].version = v

\* Every row but row id is as the last operation found it, and no other row
\* came or went.
OtherRowsKept(id) ==
    /\ DOMAIN movies \ {id} = DOMAIN prev.movies \ {id}
    /\ \A i \in DOMAIN movies \ {id} : movies[i] = prev.movies[i]

\* The last Update presented the version the row had.
Matched == HadRow(last.id) /\ prev.movies[last.id].version = last.ver

\* C1: of the callers that fetched a row at version v and call Update
\* presenting v, directly or through updateMovieHandler, exactly one
\* succeeds: the Update that finds the row at v rewrites it with its own
\* fields at v + 1, is the v-th rewrite of the row (so no second one is),
\* and leaves every caller still holding v behind the row; an Update that
\* does not find the row at v gets ErrEditConflict and leaves the table as
\* it was, and no Update succeeds without having found the row at v.
C1_OneWinnerPerVersion ==
    last.op = "Update" =>
        /\ (Matched /\ Answered) =>
              /\ last.err = Nil
              /\ HasRow(last.id)
              /\ RowHolds(last.id, Presented, last.ver + 1)
              /\ Presented.Version = last.ver + 1
              /\ written[last.id].updates = last.ver
              /\ \A c \in Callers :
                    (pc[c] = "update" /\ held[c][1].ID = last.id) =>
                        held[c][1].Version < movies[last.id].version
        /\ ~Matched =>
              /\ movies = prev.movies
              /\ Answered => last.err = ErrEditConflict
        /\ last.err = Nil => Matched

\* Two callers' updateMovieHandler fetched the row at the same version; the
\* one that set the title "Beta" won, and the other, presenting that version
\* with the title "Alpha", was answered with an edit conflict: the row is
\* one version on and holds the winner's title.
C1_Witness ==
    /\ last.op = "Update"
    /\ last.status = "editConflictResponse"
    /\ Presented.Title = "Alpha"
    /\ HasRow(last.id)
    /\ movies[last.id].version = last.ver + 1
    /\ movies[last.id].title = "Beta"

\* C2: an Update that presents a version other than the row's current one
\* returns ErrEditConflict and leaves the row's title, year, runtime, genres
\* and version as they were.
C2_StaleUpdateRejected ==
    (last.op = "Update" /\ HadRow(last.id)
        /\ prev.movies[last.id].version # last.ver) =>
        /\ HasRow(last.id)
        /\ movies[last.id].title = prev.movies[last.id].title
        /\ movies[last.id].year = prev.movies[last.id].year
        /\ movies[last.id].runtime = prev.movies[last.id].runtime
        /\ movies[last.id].genres = prev.movies[last.id].genres
        /\ movies[last.id].version = prev.movies[last.id].version
        /\ Answered => last.err = ErrEditConflict
        /\ last.err # Nil

\* An Update presenting an older version than the row's, with other fields
\* than the row holds, was answered ErrEditConflict.
C2_Witness ==
    /\ last.op = "Update"
    /\ HadRow(last.id)
    /\ prev.movies[last.id].version > last.ver
    /\ prev.movies[last.id].title # Presented.Title
    /\ last.err = ErrEditConflict

\* C3: a row's version is 1 plus the number of Updates applied to it: each
\* Update that succeeds raises it by exactly one and returns the new
\* version, no other operation changes it, and it never decreases.
C3_VersionCountsUpdates ==
    /\ \A i \in DOMAIN movies : movies[i].version = 1 + written[i].updates
    /\ \A i \in DOMAIN movies :
          IF i \in DOMAIN prev.movies
          THEN /\ movies[i].version >= prev.movies[i].version
               /\ movies[i].version # prev.movies[i].version =>
                     /\ last.op = "Update"
                     /\ last.id = i
                     /\ last.ver = prev.movies[i].version
                     /\ movies[i].version = prev.movies[i].version + 1
          ELSE movies[i].version = 1
    /\ (last.op = "Update" /\ last.err = Nil) =>
          /\ HadRow(last.id) /\ HasRow(last.id)
          /\ movies[last.id].version = prev.movies[last.id].version + 1
          /\ Presented.Version = movies[last.id].version

\* The second successful Update of a row in a chain returned version 3.
C3_Witness ==
    /\ last.op = "Update"
    /\ last.err = Nil
    /\ last.ver = 2
    /\ Presented.Version = 3
    /\ written[last.id].updates = 2

\* C4: an Update of a row that has been deleted, also one deleted between
\* the handler's Get and its Update, returns ErrEditConflict, neither
\* ErrRecordNotFound nor success, and does not create the row again.
C4_UpdateOfDeletedRow ==
    (last.op = "Update" /\ WasDeleted(last.id)) =>
        /\ movies = prev.movies
        /\ ~HasRow(last.id)
        /\ last.err \notin {Nil, ErrRecordNotFound}
        /\ Answered => last.err = ErrEditConflict
        /\ (Answered /\ last.status # "none") =>
              last.status = "editConflictResponse"

\* updateMovieHandler fetched the row, the row was deleted, and the
\* handler's Update was answered with an edit conflict.
C4_Witness ==
    /\ last.op = "Update"
    /\ last.status = "editConflictResponse"
    /\ WasDeleted(last.id)
    /\ Presented.ID = last.id

\* C5: an Insert that succeeds creates exactly one row, holding the fields
\* given, and writes back version 1 and a positive id that no other Insert
\* was or will be given.
C5_InsertCreatesOneRow ==
    /\ (last.op = "Insert" /\ last.err = Nil) =>
          /\ Presented.Version = 1
          /\ Presented.ID >= 1
          /\ Presented.ID > prev.serial
          /\ Presented.ID <= serial
          /\ ~HadRow(Presented.ID)
          /\ DOMAIN movies = DOMAIN prev.movies \cup {Presented.ID}
          /\ OtherRowsKept(Presented.ID)
          /\ RowHolds(Presented.ID, Presented, 1)
    /\ last.op = "Insert" =>
          /\ Cardinality(DOMAIN movies \ DOMAIN prev.movies) <= 1
          /\ \A i \in DOMAIN prev.movies :
                i \in DOMAIN movies /\ movies[i] = prev.movies[i]

\* A second Insert succeeded beside the row of the first and was given
\* another id.
C5_Witness ==
    /\ last.op = "Insert"
    /\ last.err = Nil
    /\ \E i \in DOMAIN prev.movies : i # Presented.ID
    /\ Cardinality(DOMAIN movies) = 2

\* C6: ids are never reused or resequenced: a row's id is the one it was
\* inserted under, only an Insert brings an id into the table, the id it
\* brings is above every id issued before, and no operation changes the id
\* of an existing row.
C6_IdsNeverReused ==
    /\ serial >= prev.serial
    /\ \A i \in DOMAIN movies :
          /\ movies[i].id = i
          /\ 1 <= i /\ i <= serial
          /\ ~HadRow(i) => (last.op = "Insert" /\ i > prev.serial)
    /\ \A i \in DOMAIN prev.movies :
          HasRow(i) => movies[i].id = prev.movies[i].id

\* An Insert ran after a row had been deleted, and was given an id above
\* the deleted row's.
C6_Witness ==
    /\ last.op = "Insert"
    /\ last.err = Nil
    /\ \E i \in 1..prev.serial : WasDeleted(i) /\ Presented.ID > i

\* C7: a Delete of an id that has a row succeeds and removes exactly that
\* row, leaving every other row as it was; a Get of the id afterwards
\* returns ErrRecordNotFound.
C7_DeleteRemovesTheRow ==
    /\ (last.op = "Delete" /\ HadRow(last.id)) =>
          /\ Answered => (last.err = Nil /\ ~HasRow(last.id))
          /\ last.err = Nil => ~HasRow(last.id)
          /\ OtherRowsKept(last.id)
    /\ (last.op = "Get" /\ WasDeleted(last.id) /\ Answered) =>
          (last.err = ErrRecordNotFound /\ last.movie = None)
    /\ \A i \in 1..prev.serial : WasDeleted(i) => ~HasRow(i)

\* A Delete removed one of two rows and left the other.
C7_Witness ==
    /\ last.op = "Delete"
    /\ last.err = Nil
    /\ Cardinality(DOMAIN prev.movies) = 2
    /\ DOMAIN movies = DOMAIN prev.movies \ {last.id}

\* A Get of a deleted id was answered ErrRecordNotFound.
C7_GetWitness ==
    /\ last.op = "Get"
    /\ WasDeleted(last.id)
    /\ last.err = ErrRecordNotFound

\* C8: a Delete of an id of 1 or more that has no row returns
\* ErrRecordNotFound and leaves the table as it was, as does a second Delete
\* of an id already deleted.
C8_DeleteOfMissingRow ==
    (last.op = "Delete" /\ last.id >= 1 /\ ~HadRow(last.id)) =>
        /\ movies = prev.movies
        /\ serial = prev.serial
        /\ last.err # Nil
        /\ Answered => last.err = ErrRecordNotFound

\* A second Delete of a deleted id was answered ErrRecordNotFound while
\* another row was in the table.
C8_Witness ==
    /\ last.op = "Delete"
    /\ WasDeleted(last.id)
    /\ last.err = ErrRecordNotFound
    /\ movies # [i \in {} |-> ZeroMovie]

\* C9: for an id below 1, Get and Delete return ErrRecordNotFound at once:
\* they send the backend no request and change no row.
C9_IdBelowOne ==
    (last.op \in {"Get", "Delete"} /\ last.id < 1) =>
        /\ last.err = ErrRecordNotFound
        /\ last.calls = 0
        /\ last.movie = None
        /\ movies = prev.movies
        /\ serial = prev.serial

\* Delete was called with id 0 on a table that has rows.
C9_Witness ==
    /\ last.op = "Delete"
    /\ last.id = 0
    /\ last.err = ErrRecordNotFound
    /\ DOMAIN movies # {}

\* Get was called with a negative id on a table that has rows.
C9_GetWitness ==
    /\ last.op = "Get"
    /\ last.id < 0
    /\ last.err = ErrRecordNotFound
    /\ DOMAIN movies # {}

\* C10: a Get that succeeds returns the row as the last committed write
\* left it: after the Insert the fields given and version 1, after an
\* Update the fields it wrote and the version it raised, never the fields of
\* an Update that failed; a Get of an id of 1 or more that has no row
\* returns ErrRecordNotFound.
C10_GetReturnsLastWrite ==
    last.op = "Get" =>
        /\ last.err = Nil =>
              /\ HadRow(last.id)
              /\ last.movie # None
              /\ Presented = ScanMovie(prev.movies[last.id])
              /\ Presented.ID = last.id
              /\ Presented.Title = written[last.id].Title
              /\ Presented.Year = written[last.id].Year
              /\ Presented.Runtime = written[last.id].Runtime
              /\ Presented.Genres = written[last.id].Genres
              /\ Presented.Version = 1 + written[last.id].updates
        /\ (Answered /\ HadRow(last.id)) => last.err = Nil
        /\ (Answered /\ last.id >= 1 /\ ~HadRow(last.id)) =>
              (last.err = ErrRecordNotFound /\ last.movie = None)
        /\ movies = prev.movies

\* A Get returned a row that an Update had rewritten with another title than
\* it was inserted with.
C10_Witness ==
    /\ last.op = "Get"
    /\ last.err = Nil
    /\ Presented.Version = 2
    /\ Presented.Title = "Beta"
    /\ Presented.Runtime = 102

\* A Get of an id never issued was answered ErrRecordNotFound.
C10_MissingWitness ==
    /\ last.op = "Get"
    /\ last.id > serial
    /\ last.err = ErrRecordNotFound
    /\ last.calls = 1

\* C11: the store remaps the backend's no-rows signal only, per operation:
\* Get and Delete return ErrRecordNotFound for it (and for an id below 1) and
\* never ErrEditConflict, Update returns ErrEditConflict for it and never
\* ErrRecordNotFound, Insert and GetAll return neither, and every other
\* error of the backend is returned as the backend raised it.
C11_OnlyNoRowsRemapped ==
    /\ last.op \in {"Get", "Delete"} =>
          /\ last.err # ErrEditConflict
          /\ last.err = ErrRecordNotFound <=>
                (last.id < 1 \/ (Answered /\ ~HadRow(last.id)))
    /\ last.op = "Update" =>
          /\ last.err # ErrRecordNotFound
          /\ last.err = ErrEditConflict <=> (Answered /\ ~Matched)
    /\ last.op \in {"Insert", "GetAll"} =>
          last.err \notin {ErrRecordNotFound, ErrEditConflict}
    /\ last.op \in {"Insert", "Get", "Update", "Delete", "GetAll"} =>
          /\ last.o = "lost" => last.err = ErrBackend
          /\ last.o = "down" => last.err = ErrRefused
          /\ last.err \in {ErrBackend, ErrRefused} =>
                last.o \in {"lost", "down"}

\* A Get of the row was refused by the backend and returned that error.
C11_Witness ==
    /\ last.op = "Get"
    /\ HadRow(last.id)
    /\ last.o = "down"
    /\ last.err = ErrRefused

\* An Update lost its answer after the row was rewritten, and returned the
\* expiry of the context.
C11_UpdateWitness ==
    /\ last.op = "Update"
    /\ last.o = "lost"
    /\ last.err = ErrBackend
    /\ movies # prev.movies

\* A GetAll was refused by the backend and returned that error.
C11_ListWitness ==
    /\ last.op = "GetAll"
    /\ last.err = ErrRefused
    /\ DOMAIN movies # {}

\* ---------------------------------------------------- properties of GetAll
\* The last operation was a GetAll that returned rows and metadata.
ListOk == last.op = "GetAll" /\ last.err = Nil /\ ~last.panics

\* What GetAll returns for page p of size s of the last list call.
PageOf(p, s) ==
    GetAll(movies, last.title, last.genres,
           [last.filters EXCEPT !.Page = p, !.PageSize = s], "ok")

\* The whole ordered list of the rows the last list call's filter matches:
\* the one page that has room for every row of the table.
WholeList == PageOf(1, Cardinality(DOMAIN movies) + 1).movies[1]

Min(a, b) == IF a < b THEN a ELSE b

\* The value of a Movie struct in the column a sort key names.
KeyOf(m, sort) ==
    CASE sort \in {"id", "-id"} -> m.ID
      [] sort \in {"title", "-title"} -> Collate(m.Title)
      [] sort \in {"year", "-year"} -> m.Year
      [] sort \in {"runtime", "-runtime"} -> m.Runtime

Descending(sort) == sort \in {"-id", "-title", "-year", "-runtime"}

\* The ids of the rows of a sequence of Movie structs.
IdsOf(list) == {list[i].ID : i \in 1..Len(list)}

\* The rows a list call is to match.
ToMatch(title, genres) ==
    {i \in DOMAIN movies :
        /\ title = "" \/ TextMatches(movies[i].title, title)
        /\ genres = <<>> \/
              \A k \in 1..Len(genres) :
                  \E j \in 1..Len(movies[i].genres) :
                      movies[i].genres[j] = genres[k]}

\* The number of rows the last list call is to match.
Matching == Cardinality(ToMatch(last.title, last.genres))

\* Row k of the pages of size s laid one after the other.
Laid(k, s) == PageOf(((k - 1) \div s) + 1, s).movies[1][((k - 1) % s) + 1]

\* The smallest L with L * s >= t.
PagesFor(t, s) == CHOOSE L \in 0..t : L * s >= t /\ (L = 0 \/ (L - 1) * s < t)

\* C12: on an unchanged table with T rows matching the filter, GetAll with
\* page size s returns min(s, T - (p-1)s) rows for each page p of
\* 1..ceil(T/s), the pages are pairwise disjoint, one after the other they
\* are the whole ordered list of the matching rows, and each carries
\* total_records = T and last_page = ceil(T/s).
C12_PagesPartitionTheList ==
    ListOk =>
        LET s == last.filters.PageSize
            T == Matching
            L == PagesFor(T, s)
            sort == last.filters.Sort
        IN  /\ \A p \in 1..L :
                  LET r == PageOf(p, s)
                  IN  /\ r.err = Nil
                      /\ r.movies # None
                      /\ Len(r.movies[1]) = Min(s, T - (p - 1) * s)
                      /\ r.metadata.TotalRecords = T
                      /\ r.metadata.LastPage = L
            /\ {Laid(k, s).ID : k \in 1..T} = ToMatch(last.title, last.genres)
            /\ \A k, n \in 1..T : k < n =>
                  /\ Laid(k, s).ID # Laid(n, s).ID
                  /\ LET x == KeyOf(Laid(k, s), sort)
                         y == KeyOf(Laid(n, s), sort)
                     IN  /\ x # y =>
                               (IF Descending(sort) THEN x > y ELSE x < y)
                         /\ x = y => Laid(k, s).ID < Laid(n, s).ID
            /\ \A k \in 1..T : Laid(k, s) = WholeList[k]
            /\ last.filters.Page \in 1..L =>
                  /\ Len(last.movie[1]) =
                        Min(s, T - (last.filters.Page - 1) * s)
                  /\ \A i \in 1..Len(last.movie[1]) :
                        last.movie[1][i] =
                            Laid((last.filters.Page - 1) * s + i, s)
                  /\ last.metadata.TotalRecords = T
                  /\ last.metadata.LastPage = L

\* Page 2 of size 2 of three matching rows was read: it has the one row
\* left, and the metadata says 3 records on 2 pages.
C12_Witness ==
    /\ ListOk
    /\ last.filters.Page = 2
    /\ last.filters.PageSize = 2
    /\ Matching = 3
    /\ Len(last.movie[1]) = 1
    /\ last.metadata.LastPage = 2
    /\ last.metadata.TotalRecords = 3

\* C13: for every GetAll that succeeds, whatever page and page size it asks
\* for, also a page past the last one, the total count the metadata is
\* computed from is the number of rows that match the filter.
C13_TotalIsTheMatchCount ==
    ListOk =>
        /\ last.total = Matching
        /\ last.metadata.TotalRecords = Matching

C15_ZeroTotalIsAllZero ==
    (last.op = "GetAll" /\ Answered /\ last.total = 0) =>
        /\ last.err = Nil
        /\ last.movie # None
        /\ last.metadata.CurrentPage = 0
        /\ last.metadata.PageSize = 0
        /\ last.metadata.FirstPage = 0
        /\ last.metadata.LastPage = 0
        /\ last.metadata.TotalRecords = 0

\* A GetAll asked for page 2 of size 3 and scanned no count.
C15_Witness ==
    /\ last.op = "GetAll"
    /\ Answered
    /\ last.total = 0
    /\ last.filters.Page = 2
    /\ last.filters.PageSize = 3
    /\ last.metadata = ZeroMetadata

\* C16: for a total above 0 the metadata carries the page and page size
\* asked for, first_page 1, the total, and as last_page the smallest L with
\* L * page_size >= total: the quotient when page_size divides the total,
\* one more than the integer quotient when it does not.
C16_MetadataOfPositiveTotal ==
    (ListOk /\ last.total > 0) =>
        LET t == last.total
            s == last.filters.PageSize
            L == last.metadata.LastPage
        IN  /\ last.metadata.CurrentPage = last.filters.Page
            /\ last.metadata.PageSize = s
            /\ last.metadata.FirstPage = 1
            /\ last.metadata.TotalRecords = t
            /\ L * s >= t
            /\ (L - 1) * s < t
            /\ t % s = 0 => L = t \div s
            /\ t % s # 0 => L = (t \div s) + 1

\* Three records in pages of two: last_page is 2.
C16_Witness ==
    /\ ListOk
    /\ last.total = 3
    /\ last.filters.PageSize = 2
    /\ last.metadata.LastPage = 2

\* C17: the rows GetAll returns are in a total order: by the column the sort
\* key names, ascending without a leading "-" and descending with one, and
\* by id ascending among rows equal in that column, in both directions.
C17_RowsInTotalOrder ==
    ListOk =>
        LET rows == last.movie[1]
            sort == last.filters.Sort
        IN  \A i, j \in 1..Len(rows) : i < j =>
                LET x == KeyOf(rows[i], sort)
                    y == KeyOf(rows[j], sort)
                IN  /\ x # y => (IF Descending(sort) THEN x > y ELSE x < y)
                    /\ x = y => rows[i].ID < rows[j].ID

\* Three rows listed by "-year": two of the later year in the order of
\* their ids, then the one of the earlier year, whose id is between them.
C17_Witness ==
    /\ ListOk
    /\ last.filters.Sort = "-year"
    /\ Len(last.movie[1]) = 3
    /\ last.movie[1][1].Year = last.movie[1][2].Year
    /\ last.movie[1][1].ID < last.movie[1][3].ID
    /\ last.movie[1][3].ID < last.movie[1][2].ID
    /\ last.movie[1][3].Year < last.movie[1][2].Year

\* C18: GetAll matches a row if and only if the search text is empty or the
\* title matches it, and the tag filter is empty or each of its tags equals,
\* case and all, one of the row's; with both empty every row matches.
C18_MatchingRule ==
    ListOk =>
        /\ IdsOf(WholeList) = ToMatch(last.title, last.genres)
        /\ IdsOf(last.movie[1]) \subseteq ToMatch(last.title, last.genres)
        /\ (last.title = "" /\ last.genres = <<>>) =>
              IdsOf(WholeList) = DOMAIN movies
        /\ last.total > 0 =>
              last.total = Cardinality(ToMatch(last.title, last.genres))

\* A list by two tags returned the one row that has both, of a table with a
\* row that has neither.
C18_Witness ==
    /\ ListOk
    /\ last.genres = <<"war", "Drama">>
    /\ Len(last.movie[1]) = 1
    /\ Cardinality(DOMAIN movies) = 2
    /\ \E i \in DOMAIN movies : movies[i].genres = <<"drama">>

\* C19: listMoviesHandler rejects a sort key that is not in the safelist with
\* a validation failure, and neither builds nor issues a query for it.
C19_UnsafeSortRejected ==
    (last.op \in {"GetAll", "ValidateFilters"} /\ last.status # "none"
        /\ last.filters.Sort \notin Range(SortSafelist)) =>
        /\ last.status = "failedValidationResponse"
        /\ last.calls = 0
        /\ last.column = None
        /\ last.direction = None
        /\ last.movie = None

\* A list request with a page and page size in range and the sort key
\* "genres" was answered with a validation failure.
C19_Witness ==
    /\ last.op = "ValidateFilters"
    /\ last.status = "failedValidationResponse"
    /\ last.filters.Sort = "genres"
    /\ last.filters.Page = 2
    /\ last.filters.PageSize = 1
    /\ DOMAIN movies # {}

\* C20: in every GetAll, also one called without ValidateFilters, the column
\* and direction put into the query come from a sort key of the safelist;
\* for a sort key outside the safelist no query is built or issued.
C20_OnlySafelistedSortInQuery ==
    last.op = "GetAll" =>
        /\ last.column # None =>
              /\ last.filters.Sort \in Range(SortSafelist)
              /\ last.column[1] \in {"id", "title", "year", "runtime"}
              /\ \/ (last.filters.Sort = last.column[1]
                        /\ last.direction = Some("ASC"))
                 \/ (last.filters.Sort = "-" \o last.column[1]
                        /\ last.direction = Some("DESC"))
        /\ last.filters.Sort \notin Range(SortSafelist) =>
              /\ last.calls = 0
              /\ last.column = None
              /\ last.direction = None
        /\ last.calls > 0 => last.column # None

\* GetAll was called with the sort key "genres" by a caller that had not
\* validated it: the call was aborted before a query was built.
C20_Witness ==
    /\ last.op = "GetAll"
    /\ last.status = "none"
    /\ last.filters.Sort = "genres"
    /\ last.panics
    /\ last.calls = 0
    /\ DOMAIN movies # {}

\* ------------------------------------------- properties of the validators
\* C21: ValidateFilters returns an empty errors map if and only if
\* 1 <= page <= 10,000,000, 1 <= page_size <= 100 and the sort key is in the
\* safelist; each constraint that is violated has an entry under its own
\* field and no other field has one; no request goes to the backend and the
\* table is left as it was.
C21_ValidateFiltersRule ==
    last.op = "ValidateFilters" =>
        LET f == last.subject
            e == last.errors
            pageOk == 1 <= f.Page /\ f.Page <= 10000000
            sizeOk == 1 <= f.PageSize /\ f.PageSize <= 100
            sortOk == \E i \in 1..Len(f.SortSafelist) :
                         f.SortSafelist[i] = f.Sort
        IN  /\ e = NoErrors <=> (pageOk /\ sizeOk /\ sortOk)
            /\ "page" \in DOMAIN e <=> ~pageOk
            /\ "page_size" \in DOMAIN e <=> ~sizeOk
            /\ "sort" \in DOMAIN e <=> ~sortOk
            /\ DOMAIN e \subseteq {"page", "page_size", "sort"}
            /\ last.calls = 0
            /\ movies = prev.movies
            /\ serial = prev.serial

\* Filters with page 1, page size 0 and a sort key outside the safelist
\* were validated: the map has entries for page_size and sort, not for page.
C21_Witness ==
    /\ last.op = "ValidateFilters"
    /\ last.subject.Page = 1
    /\ last.subject.PageSize = 0
    /\ last.subject.Sort = "-version"
    /\ DOMAIN last.errors = {"page_size", "sort"}

\* Filters at the upper ends of both ranges were validated without errors.
C21_ValidWitness ==
    /\ last.op = "ValidateFilters"
    /\ last.subject.Page = 10000000
    /\ last.subject.PageSize = 100
    /\ last.errors = NoErrors

\* C22: ValidateMovie returns an empty errors map if and only if the title
\* is not empty and at most 500 bytes long, the year is in 1888..current
\* year, the runtime is above 0 and the genres are given, 1 to 5 of them, no
\* two equal; every field that is invalid has an entry, not only the first
\* one checked, and no other key has one.
C22_ValidateMovieRule ==
    last.op = "ValidateMovie" =>
        LET m == last.subject
            e == last.errors
            titleOk == m.Title # "" /\ Len(m.Title) <= 500
            yearOk == 1888 <= m.Year /\ m.Year <= CurrentYear
            runtimeOk == m.Runtime > 0
            genresOk ==
                /\ m.Genres # None
                /\ Len(m.Genres[1]) \in 1..5
                /\ \A i, j \in 1..Len(m.Genres[1]) :
                      i # j => m.Genres[1][i] # m.Genres[1][j]
        IN  /\ e = NoErrors <=> (titleOk /\ yearOk /\ runtimeOk /\ genresOk)
            /\ "title" \in DOMAIN e <=> ~titleOk
            /\ "year" \in DOMAIN e <=> ~yearOk
            /\ "runtime" \in DOMAIN e <=> ~runtimeOk
            /\ "genres" \in DOMAIN e <=> ~genresOk
            /\ DOMAIN e \subseteq {"title", "year", "runtime", "genres"}

\* A movie with a title of 501 bytes, the year 1887, the runtime 0 and a
\* repeated genre was validated: the map has an entry for each of the four.
C22_Witness ==
    /\ last.op = "ValidateMovie"
    /\ Len(last.subject.Title) = 501
    /\ last.subject.Year = 1887
    /\ last.subject.Runtime = 0
    /\ last.subject.Genres = Some(<<"drama", "drama">>)
    /\ DOMAIN last.errors = {"title", "year", "runtime", "genres"}

\* A movie with a title of 500 bytes, the year 1888, the runtime 1 and five
\* distinct genres was validated without errors.
C22_ValidWitness ==
    /\ last.op = "ValidateMovie"
    /\ Len(last.subject.Title) = 500
    /\ last.subject.Year = 1888
    /\ last.subject.Runtime = 1
    /\ last.subject.Genres = Some(<<"a", "b", "c", "d", "e">>)
    /\ last.errors = NoErrors

\* ---------------------------------------------- properties of the handlers
\* The last operation was run by a handler.
ByHandler == "handler" \in DOMAIN last

\* The handler of the last operation gave ValidateMovie a movie that it
\* reports errors for.
FoundInvalid ==
    /\ ByHandler
    /\ last.validated # None
    /\ ~Valid(ValidateMovie(last.validated[1]))

\* C23: when ValidateMovie reports an error for the movie of a create or an
\* update request, the handler answers failedValidationResponse and calls
\* neither Insert nor Update: the table and the sequence are as they were;
\* a handler answers so for no other reason, and every movie a handler holds
\* for its Update has passed ValidateMovie.
C23_InvalidItemNeverWritten ==
    /\ FoundInvalid =>
          /\ last.status = "failedValidationResponse"
          /\ last.op \notin {"Insert", "Update"}
          /\ movies = prev.movies
          /\ serial = prev.serial
    /\ (ByHandler /\ last.status = "failedValidationResponse") => FoundInvalid
    /\ (ByHandler /\ last.op \in {"Insert", "Update"}) =>
          (last.validated # None /\ Valid(ValidateMovie(last.validated[1])))
    /\ \A c \in Callers :
          pc[c] = "update" => Valid(ValidateMovie(held[c][1]))

\* updateMovieHandler fetched the row, the request set the year 1800, and
\* the handler answered with a validation failure: the row keeps its year
\* and its version.
C23_Witness ==
    /\ ByHandler
    /\ last.handler = "updateMovieHandler"
    /\ last.status = "failedValidationResponse"
    /\ last.validated[1].Year = 1800
    /\ HasRow(last.id)
    /\ movies[last.id].year = 2000
    /\ movies[last.id].version = 1

\* createMovieHandler was given a movie of the year 1800 and answered with a
\* validation failure: no id was drawn.
C23_CreateWitness ==
    /\ ByHandler
    /\ last.handler = "createMovieHandler"
    /\ last.status = "failedValidationResponse"
    /\ last.validated[1].Year = 1800
    /\ serial = 0

C24_DeleteWitness ==
    /\ ByHandler
    /\ last.handler = "deleteMovieHandler"
    /\ last.op = "Delete"
    /\ WasDeleted(last.id)
    /\ last.status = "notFoundResponse"

\* updateMovieHandler's Update lost its answer and the handler answered
\* with a server error.
C24_ServerErrorWitness ==
    /\ ByHandler
    /\ last.op = "Update"
    /\ last.o = "lost"
    /\ last.status = "serverErrorResponse"

\* C25: after an updateMovieHandler whose Update succeeded, each of title,
\* year, runtime and genres of the row has the value of the request where
\* the request has the field and the value of the movie Get fetched where
\* it has not; id and created_at are the fetched ones, the version is the
\* fetched one plus 1, and the movie merged so had passed ValidateMovie
\* before Update was called.
C25_PartialUpdateMerges ==
    (ByHandler /\ last.op = "Update" /\ last.err = Nil) =>
        LET input == last.input
            fetched == last.fetched
            merged == last.validated[1]
            row == movies[last.id]
        IN  /\ HasRow(last.id)
            /\ fetched.ID = last.id
            /\ row.id = fetched.ID
            /\ row.created_at = fetched.CreatedAt
            /\ row.version = fetched.Version + 1
            /\ row.title = IF input.Title # None THEN input.Title[1]
                           ELSE fetched.Title
            /\ row.year = IF input.Year # None THEN input.Year[1]
                          ELSE fetched.Year
            /\ row.runtime = IF input.Runtime # None THEN input.Runtime[1]
                             ELSE fetched.Runtime
            /\ Some(row.genres) = IF input.Genres # None THEN input.Genres
                                  ELSE fetched.Genres
            /\ merged.Title = row.title
            /\ merged.Year = row.year
            /\ merged.Runtime = row.runtime
            /\ merged.Genres = Some(row.genres)
            /\ Valid(ValidateMovie(merged))

\* A request that set the year and the runtime only succeeded: the row has
\* the new year and runtime and the title and genres it was fetched with.
C25_Witness ==
    /\ ByHandler
    /\ last.op = "Update"
    /\ last.status = "200 OK"
    /\ last.input = PatchYearRuntime
    /\ last.fetched.Year = 2000
    /\ last.fetched.Runtime = 90
    /\ movies[last.id].year = 2001
    /\ movies[last.id].runtime = 102
    /\ movies[last.id].title = "Alpha"
    /\ movies[last.id].genres = <<"drama">>

\* ------------------------------------- properties of the backend requests
\* Row i holds the four fields of one write, at the version that the count
\* of the statements that rewrote it gives.
WholeRow(i) ==
    /\ movies[i].title = written[i].Title
    /\ movies[i].year = written[i].Year
    /\ movies[i].runtime = written[i].Runtime
    /\ Some(movies[i].genres) = written[i].Genres
    /\ movies[i].version = 1 + written[i].updates

\* C26: every operation is atomic: each row of the table, and so each row a
\* Get or a GetAll returns, holds the four fields of one write at the
\* version that write gave it, never some fields of an Update without the
\* others or without the version; an Insert or Update that returns an error
\* of the backend has left the table as it was or has applied completely
\* (Insert: one row with the four fields at version 1; Update: the four
\* fields written and the version raised by 1).
C26_NoPartialWrite ==
    /\ \A i \in DOMAIN movies : WholeRow(i)
    /\ (last.op = "Get" /\ last.err = Nil) =>
          /\ Presented = ScanMovie(movies[last.id])
          /\ WholeRow(last.id)
    /\ (last.op = "GetAll" /\ last.err = Nil /\ ~last.panics) =>
          \A k \in 1..Len(last.movie[1]) :
              /\ last.movie[1][k].ID \in DOMAIN movies
              /\ last.movie[1][k] = ScanMovie(movies[last.movie[1][k].ID])
    /\ last.op = "Update" =>
          \/ movies = prev.movies
          \/ /\ HadRow(last.id)
             /\ prev.movies[last.id].version = last.ver
             /\ movies =
                   [prev.movies EXCEPT
                       ![last.id] =
                           [id |-> last.id,
                            created_at |-> prev.movies[last.id].created_at,
                            title |-> Presented.Title,
                            year |-> Presented.Year,
                            runtime |-> Presented.Runtime,
                            genres |-> Presented.Genres[1],
                            version |-> last.ver + 1]]
    /\ last.op = "Insert" =>
          \/ movies = prev.movies
          \/ /\ DOMAIN movies = DOMAIN prev.movies \cup {serial}
             /\ serial \notin DOMAIN prev.movies
             /\ \A i \in DOMAIN prev.movies : movies[i] = prev.movies[i]
             /\ movies[serial].title = Presented.Title
             /\ movies[serial].year = Presented.Year
             /\ movies[serial].runtime = Presented.Runtime
             /\ movies[serial].genres = Presented.Genres[1]
             /\ movies[serial].version = 1

\* An Update whose answer was lost to the context returned the error and
\* had applied completely: the row holds all four fields at version 2.
C26_Witness ==
    /\ last.op = "Update"
    /\ last.o = "lost"
    /\ last.err # Nil
    /\ HasRow(last.id)
    /\ movies[last.id].title = "Beta"
    /\ movies[last.id].year = 2001
    /\ movies[last.id].runtime = 102
    /\ movies[last.id].genres = <<"comedy", "war">>
    /\ movies[last.id].version = 2

\* A Get returned the row after an Update had rewritten it.
C26_GetWitness ==
    /\ last.op = "Get"
    /\ last.err = Nil
    /\ Presented.Title = "Beta"
    /\ Presented.Version = 2

\* An Insert whose answer was lost had created the row.
C26_InsertWitness ==
    /\ last.op = "Insert"
    /\ last.o = "lost"
    /\ last.err # Nil
    /\ serial = prev.serial + 1
    /\ HasRow(serial)

\* The last operation was a call of one of the five methods of the store.
StoreCalled == last.op \in {"Insert", "Get", "Update", "Delete", "GetAll"}

\* The call ended before a query was built: Get or Delete was given an id
\* below 1, or GetAll a sort key outside the safelist.
EndedBeforeQuery ==
    \/ last.op \in {"Get", "Delete"} /\ last.id < 1
    \/ last.op = "GetAll" /\ last.filters.Sort \notin Range(SortSafelist)

\* C27 as amended: every call of Insert, Get, Update, Delete or GetAll
\* issues exactly one request to the backend, except a Get or Delete of an
\* id below 1 and a GetAll with a sort key outside the safelist, which issue
\* none; no call issues more than one.
C27_OneRequestUnlessEndedBefore ==
    StoreCalled =>
        /\ last.calls \in {0, 1}
        /\ last.calls = 0 <=> EndedBeforeQuery

\* An Update that found the row at another version issued its one request.
C27_Witness ==
    /\ last.op = "Update"
    /\ last.err = ErrEditConflict
    /\ last.calls = 1

\* A Delete of the id 0 issued no request.
C27_ShortcutWitness ==
    /\ last.op = "Delete"
    /\ last.id = 0
    /\ last.calls = 0
    /\ last.err = ErrRecordNotFound

\* C27 as stated: every call of Insert, Get, Update, Delete or GetAll issues
\* exactly one request to the backend.
C27_AsStated == StoreCalled => last.calls = 1

\* C29: a GetAll that fails, be it in QueryContext, in rows.Scan or in
\* rows.Err, returns the error as it was raised, a nil slice and metadata
\* with every field zero, never the rows read before the error; and it fails
\* whenever one of the three does.
C29_FailedListIsEmpty ==
    (last.op = "GetAll" /\ ~last.panics) =>
        /\ last.err # Nil =>
              /\ last.movie = None
              /\ last.metadata = ZeroMetadata
              /\ last.total = 0
              /\ last.err \notin {ErrRecordNotFound, ErrEditConflict}
        /\ last.o = "down" => last.err = ErrRefused
        /\ last.o = "iter" => last.err = ErrRows
        /\ last.o = "scan" =>
              last.err = (IF Matching > offset(last.filters) THEN ErrScan
                          ELSE Nil)
        /\ last.o = "ok" => last.err = Nil

\* rows.Err reported an error after the one row of the page had been read.
C29_Witness ==
    /\ last.op = "GetAll"
    /\ last.o = "iter"
    /\ last.err = ErrRows
    /\ Matching >= 1
    /\ last.movie = None
    /\ last.metadata = ZeroMetadata

\* rows.Scan failed on the first row.
C29_ScanWitness ==
    /\ last.op = "GetAll"
    /\ last.o = "scan"
    /\ last.err = ErrScan
    /\ last.movie = None

\* QueryContext failed.
C29_QueryWitness ==
    /\ last.op = "GetAll"
    /\ last.o = "down"
    /\ last.err = ErrRefused
    /\ last.movie = None
    /\ Matching >= 1

\* C30: a row changes only by an Update of its id, which changes only its
\* title, year, runtime, genres and version: the id and created_at of every
\* row are those its Insert gave it, after any sequence of operations, and
\* an Update or Delete of one id leaves the rows of every other id as they
\* were; a Get changes nothing.
C30_OnlyUpdateMutatesItsRow ==
    /\ \A i \in DOMAIN movies :
          /\ movies[i].id = i
          /\ movies[i].created_at = i
          /\ (HadRow(i) /\ movies[i] # prev.movies[i]) =>
                /\ last.op = "Update"
                /\ last.id = i
                /\ movies[i].id = prev.movies[i].id
                /\ movies[i].created_at = prev.movies[i].created_at
    /\ last.op \in {"Update", "Delete"} => OtherRowsKept(last.id)
    /\ last.op = "Update" => DOMAIN movies = DOMAIN prev.movies
    /\ last.op = "Get" => movies = prev.movies

\* The second of two rows was updated twice: it keeps its id and the
\* instant of its Insert, and the first row is as it was.
C30_Witness ==
    /\ last.op = "Update"
    /\ last.err = Nil
    /\ last.id = 2
    /\ HasRow(1)
    /\ movies[2].version = 3
    /\ movies[2].created_at = 2
    /\ movies[2].title # prev.movies[2].title
    /\ movies[1] = prev.movies[1]

\* C28: every call of a method of the store returns: a call in flight whose
\* backend does not answer ends when its context expires, with the error of
\* the expiry, which is neither ErrRecordNotFound nor ErrEditConflict nor
\* nil; and a call that returns, for the expiry of its context or for any
\* other reason, leaves every other call in flight as it was.
C28_EveryCallReturns ==
    /\ \A c \in Callers : (pc[c] = "waiting") ~> (pc[c] = "idle")
    /\ [](last.o \in ExpiryOutcomes => last.err = ErrBackend)
    /\ [][\A c, d \in Callers :
             (c # d /\ pc[c] = "waiting" /\ pc'[c] = "idle") =>
                 (pc'[d] = pc[d] /\ held'[d] = held[d])]_vars

\* The context of an Update expired before the statement ran, while the
\* call of another caller was in flight, and is in flight still.
C28_Witness ==
    /\ last.op = "Update"
    /\ last.o = "late"
    /\ last.err = ErrBackend
    /\ movies = prev.movies
    /\ HasRow(last.id)
    /\ \E c \in Callers : pc[c] = "waiting" /\ held[c][1].op = "Insert"

\* The texts of the form "<integer> mins" among the JSON strings read and
\* the round trips made, each with the integer it names.
MinsTexts ==
    {<<<<"1", "0", "2", " ", "m", "i", "n", "s">>, 102>>,
     <<<<"9", "0", " ", "m", "i", "n", "s">>, 90>>,
     <<<<"7", " ", "m", "i", "n", "s">>, 7>>,
     <<<<"0", " ", "m", "i", "n", "s">>, 0>>,
     <<<<"-", "5", " ", "m", "i", "n", "s">>, -5>>,
     <<<<"+", "7", " ", "m", "i", "n", "s">>, 7>>,
     <<<<"2", "1", "4", "7", "4", "8", "3", "6", "4", "7", " ",
         "m", "i", "n", "s">>, 2147483647>>}

\* The runtime a JSON value stands for: None unless it is a JSON string
\* whose text is of that form.
MinutesOf(json) ==
    IF json.quoted /\ \E e \in MinsTexts : e[1] = json.text
    THEN Some((CHOOSE e \in MinsTexts : e[1] = json.text)[2])
    ELSE None

C31_RoundTripWitness ==
    /\ last.op = "MarshalJSON"
    /\ last.value = 102
    /\ last.json.text = <<"1", "0", "2", " ", "m", "i", "n", "s">>
    /\ last.back.value = 102

\* A JSON number was refused as a runtime.
C31_RefusedWitness ==
    /\ last.op = "UnmarshalJSON"
    /\ ~last.json.quoted
    /\ last.back.err = ErrInvalidRuntimeFormat

\* The last operation is a list request's.
ByListHandler == "filters" \in DOMAIN last /\ last.status # "none"

\* The handler of the last operation called the store though no validator
\* had passed what the request gave.
CalledUnvalidated ==
    \/ /\ ByHandler
       /\ last.handler \in {"createMovieHandler", "updateMovieHandler"}
       /\ last.calls > 0
       /\ \/ last.validated = None
          \/ last.status = "failedValidationResponse"
    \/ /\ ByListHandler
       /\ last.calls > 0
       /\ ~Valid(ValidateFilters(last.filters))

\* C32: a handler calls Insert, Update or GetAll only after its validator
\* passed the movie or the filters of the request, and gives the store what
\* the validator passed; updateMovieHandler calls Get before ValidateMovie,
\* for the movie it validates is the fetched one with the request's fields.
C32_ValidatedBeforeWriteOrList ==
    /\ (ByHandler /\ last.op \in {"Insert", "Update"}) =>
          /\ last.validated # None
          /\ Valid(ValidateMovie(last.validated[1]))
          /\ last.status # "failedValidationResponse"
          /\ last.op = "Update" =>
                /\ last.handler = "updateMovieHandler"
                /\ last.id = last.validated[1].ID
                /\ last.ver = last.validated[1].Version
    /\ (ByListHandler /\ last.op = "GetAll") =>
          /\ Valid(ValidateFilters(last.filters))
          /\ last.status # "failedValidationResponse"
    /\ CalledUnvalidated =>
          /\ ByHandler
          /\ last.handler = "updateMovieHandler"
          /\ last.op = "Get"
          /\ last.calls = 1
          /\ movies = prev.movies
    /\ ((ByHandler \/ ByListHandler)
            /\ last.status = "failedValidationResponse") =>
          /\ last.op \notin {"Insert", "Update", "Delete", "GetAll"}
          /\ movies = prev.movies
          /\ serial = prev.serial

\* updateMovieHandler called Update with the movie ValidateMovie passed,
\* the fetched row with the year and the runtime of the request.
C32_Witness ==
    /\ ByHandler
    /\ last.handler = "updateMovieHandler"
    /\ last.op = "Update"
    /\ last.err = Nil
    /\ last.validated[1].Year = 2001
    /\ Valid(ValidateMovie(last.validated[1]))
    /\ movies[last.id].year = 2001

\* listMoviesHandler called GetAll with filters ValidateFilters passed.
C32_ListWitness ==
    /\ ByListHandler
    /\ last.op = "GetAll"
    /\ last.calls = 1
    /\ last.filters.Page = 2
    /\ Valid(ValidateFilters(last.filters))

\* updateMovieHandler called Get and then found the merged movie invalid.
C32_GetFirstWitness ==
    /\ ByHandler
    /\ last.handler = "updateMovieHandler"
    /\ last.op = "Get"
    /\ last.calls = 1
    /\ last.status = "failedValidationResponse"

\* C32 as stated: no handler that validates calls any method of the store,
\* Get among them, in a request whose movie or filters no validator has
\* passed.
C32_AsStated == ~CalledUnvalidated

\* The callers that hold the id and the version, and the wins they count.
Holders(id, v) ==
    {c \in Callers :
        held[c] # None /\ held[c][1].id = id /\ held[c][1].ver = v}

RECURSIVE WinsOf(_)
WinsOf(callers) ==
    IF callers = {} THEN 0
    ELSE LET c == CHOOSE c \in callers : TRUE
         IN  held[c][1].wins + WinsOf(callers \ {c})

\* The last operation is an Update presenting the id and the version.
Presenting(id, v) == last.op = "Update" /\ last.id = id /\ last.ver = v

\* C33: of all the Updates presenting an id and a version v, retries after
\* a timeout among them, at most one rewrites the row or returns nil, and
\* after it the row is beyond v or gone; once one has returned
\* ErrEditConflict because the row was deleted or beyond v, the row stays
\* so, no later one rewrites the row or returns nil, and every later one
\* the backend answers returns ErrEditConflict, as does every one after the
\* winning one.
C33_TokenWinsOnce ==
    \A id \in 1..MaxId, v \in VersionArgs :
        LET among == Holders(id, v)
            refused == \E c \in among : held[c][1].stale
        IN  /\ WinsOf(among) <= 1
            /\ (WinsOf(among) = 1 \/ refused) =>
                  RowPassed(movies, serial, id, v)
            /\ (Presenting(id, v) /\ refused) =>
                  /\ last.err # Nil
                  /\ movies = prev.movies
                  /\ Answered => last.err = ErrEditConflict
            /\ (Presenting(id, v) /\ WinsOf(among) = 1
                    /\ movies = prev.movies /\ Answered) =>
                  last.err = ErrEditConflict

\* A caller's Update presenting row 1 at version 1 rewrote the row, and its
\* retry was answered with ErrEditConflict.
C33_Witness ==
    /\ Presenting(1, 1)
    /\ Answered
    /\ last.err = ErrEditConflict
    /\ \E c \in Holders(1, 1) : held[c][1].wins = 1 /\ held[c][1].stale
    /\ HasRow(1)
    /\ movies[1].version = 2

\* Two callers presented the same id and version, one rewrote the row and
\* the other was refused.
C33_TwoCallersWitness ==
    /\ \E c, d \in Holders(1, 1) :
          /\ held[c][1].wins = 1
          /\ held[d][1].wins = 0
          /\ held[d][1].stale

\* C33 as stated: at most one Update presenting an id and a version
\* succeeds, and once one has returned ErrEditConflict, for whatever reason,
\* every later one the backend answers returns ErrEditConflict.
C33_AsStated ==
    \A id \in 1..MaxId, v \in VersionArgs :
        LET among == Holders(id, v)
        IN  /\ WinsOf(among) <= 1
            /\ (Presenting(id, v) /\ Answered
                    /\ \E c \in among :
                          held[c][1].stale \/ held[c][1].early) =>
                  last.err = ErrEditConflict

\* The callers whose call has returned, and those that have called at all.
Done == {c \in Callers : pc[c] = "done"}
Called == {c \in Callers : pc[c] # "idle"}

\* The calls of c and d were in flight at the same time.
Overlapped(c, d) ==
    c \in held[d][1].overlap \/ d \in held[c][1].overlap

\* C34: when an Update presenting the version the row has and a Delete of
\* the same id are in flight together, no other call is made and the
\* backend answers both, then either the Update rewrote the row and
\* returned nil and the Delete returned nil, or the Delete returned nil and
\* the Update changed nothing and returned ErrEditConflict; the row is gone
\* in both; and after a Delete that returned nil the row is never there
\* again, whatever the Updates do.
C34_UpdateAgainstDelete ==
    /\ \A c, d \in Done :
          (/\ Called = {c, d}
           /\ held[c][1].op = "Update"
           /\ held[d][1].op = "Delete"
           /\ held[c][1].id = held[d][1].id
           /\ held[c][1].o = "ok"
           /\ held[d][1].o = "ok") =>
              /\ held[c][1].id \notin DOMAIN movies
              /\ held[d][1].err = Nil
              /\ held[d][1].applied
              /\ \/ held[c][1].err = Nil /\ held[c][1].applied
                 \/ held[c][1].err = ErrEditConflict /\ ~held[c][1].applied
    /\ \A d \in Done :
          (held[d][1].op = "Delete" /\ held[d][1].err = Nil) =>
              held[d][1].id \notin DOMAIN movies

\* An Update and a Delete of row 1 were in flight together; the Delete ran
\* first and returned nil, the Update returned ErrEditConflict.
C34_Witness ==
    \E c, d \in Done :
        /\ Called = {c, d}
        /\ Overlapped(c, d)
        /\ held[c][1].op = "Update"
        /\ held[d][1].op = "Delete"
        /\ held[c][1].o = "ok"
        /\ held[d][1].o = "ok"
        /\ held[c][1].err = ErrEditConflict
        /\ held[d][1].err = Nil
        /\ last.op = "Update"
        /\ 1 \notin DOMAIN movies

\* They were in flight together, the Update ran first, and both returned
\* nil.
C34_BothWitness ==
    \E c, d \in Done :
        /\ Called = {c, d}
        /\ Overlapped(c, d)
        /\ held[c][1].op = "Update"
        /\ held[d][1].op = "Delete"
        /\ held[c][1].err = Nil
        /\ held[d][1].err = Nil
        /\ last.op = "Delete"
        /\ prev.movies[1].version = 2
        /\ 1 \notin DOMAIN movies

\* The callers whose Delete of the id has returned, and those of them whose
\* Delete returned nil.
Deleters(id) ==
    {c \in Done : held[c][1].op = "Delete" /\ held[c][1].id = id}

DeletedBy(id) == {c \in Deleters(id) : held[c][1].err = Nil}

\* C35: of the Deletes of an id, however they overlap, at most one returns
\* nil and at most one removes the row; when every call made is a Delete of
\* the id that the backend answered, exactly one returned nil and every
\* other returned ErrRecordNotFound.
C35_OneDeleteWins ==
    \A id \in 1..MaxId :
        /\ Cardinality(DeletedBy(id)) <= 1
        /\ Cardinality({c \in Deleters(id) : held[c][1].applied}) <= 1
        /\ (/\ Deleters(id) # {}
            /\ Called = Deleters(id)
            /\ \A c \in Deleters(id) : held[c][1].o = "ok") =>
              /\ Cardinality(DeletedBy(id)) = 1
              /\ \A c \in Deleters(id) \ DeletedBy(id) :
                    held[c][1].err = ErrRecordNotFound /\ ~held[c][1].applied
              /\ id \notin DOMAIN movies

\* Two Deletes of row 1 were in flight together: one returned nil, the
\* other ErrRecordNotFound.
C35_Witness ==
    \E c, d \in Deleters(1) :
        /\ Overlapped(c, d)
        /\ held[c][1].o = "ok"
        /\ held[d][1].o = "ok"
        /\ held[c][1].err = Nil
        /\ held[d][1].err = ErrRecordNotFound
        /\ 1 \notin DOMAIN movies

\* C36: an Update of an id below 1, or of any id without a row, sends its
\* one request to the backend like any other; the statement matches no row
\* and the table stays as it was; answered, the Update returns
\* ErrEditConflict, and under no outcome ErrRecordNotFound or nil.
C36_UpdateHasNoShortcut ==
    (last.op = "Update" /\ (last.id < 1 \/ ~HadRow(last.id))) =>
        /\ last.calls = 1
        /\ last.o # "none"
        /\ movies = prev.movies
        /\ serial = prev.serial
        /\ last.err \notin {Nil, ErrRecordNotFound}
        /\ Answered => last.err = ErrEditConflict
        /\ Presented.Version = last.ver

\* An Update of id 0 was sent to the backend of a table with a row, and
\* returned ErrEditConflict.
C36_Witness ==
    /\ last.op = "Update"
    /\ last.id = 0
    /\ last.calls = 1
    /\ Answered
    /\ last.err = ErrEditConflict
    /\ DOMAIN movies # {}
    /\ movies = prev.movies

\* An Update of an id that was never issued returned ErrEditConflict.
C36_NoRowWitness ==
    /\ last.op = "Update"
    /\ last.id > serial
    /\ last.calls = 1
    /\ last.err = ErrEditConflict

\* C37: for every filter ValidateFilters accepts, the statement of GetAll
\* gets LIMIT = page_size and OFFSET = (page - 1) * page_size, the offset is
\* at least 0 and at most 999,999,900, within a signed integer of 32 bits,
\* and the limit is between 1 and 100; a filter it does not accept gets no
\* statement.
C37_LimitAndOffsetInRange ==
    last.op = "listMovies" =>
        LET page == last.subject.Page
            pageSize == last.subject.PageSize
            accepted == /\ page >= 1
                        /\ page <= 10000000
                        /\ pageSize >= 1
                        /\ pageSize <= 100
                        /\ last.subject.Sort \in Range(SortSafelist)
        IN  /\ accepted <=> last.args # None
            /\ accepted <=> last.errors = NoErrors
            /\ accepted =>
                  /\ last.args[1].limit = pageSize
                  /\ last.args[1].offset = (page - 1) * pageSize
                  /\ last.args[1].offset >= 0
                  /\ last.args[1].offset <= 999999900
                  /\ last.args[1].offset <= MaxInt32
                  /\ last.args[1].limit \in 1..100

\* The last page of the largest size that ValidateFilters accepts: the
\* offset is 999,999,900.
C37_Witness ==
    /\ last.op = "listMovies"
    /\ last.errors = NoErrors
    /\ last.subject.Page = 10000000
    /\ last.subject.PageSize = 100
    /\ last.args[1].offset = 999999900
    /\ last.args[1].limit = 100

\* The third page of 20: the offset is 40.
C37_InsideWitness ==
    /\ last.op = "listMovies"
    /\ last.subject.Page = 3
    /\ last.subject.PageSize = 20
    /\ last.args # None
    /\ last.args[1].offset = 40

====
